---- MODULE Spec2Model ----
(***************************************************************************)
(* Extension host extension service (AbstractExtHostExtensionService):     *)
(* the phase gate (four barriers), the two extension registries and their  *)
(* deltas, the activation ledger (ExtensionsActivator) with the actual     *)
(* activation procedure, the entry points that request activations, and    *)
(* terminate / deactivateAll.                                              *)
(*                                                                         *)
(* Every action is one synchronous run of a handler between two           *)
(* suspension points (await / then): JavaScript runs it to completion, so  *)
(* it is one atomic step here; what is awaited resumes in a later step.    *)
(***************************************************************************)
EXTENDS Integers, Sequences, FiniteSets, TLC

(***************************************************************************)
(* Bounds of the model.                                                    *)
(***************************************************************************)
\* external requests ($activate, $activateByEvent, ...) issued in one run
\* of the lifecycle
MaxRequests == 1
\* external requests issued in one run of the started host
MaxOverlap == 3
\* $startExtensionHost calls issued in one run
MaxStartCalls == 1
\* the $deltaExtensions calls
MaxDeltaCalls == 2
\* the terminate calls
MaxTerminateCalls == 2
\* timeout(5000): the seconds terminate gives the extensions to wrap up
ShutdownTimeout == 5

(***************************************************************************)
(* Extension identifiers and descriptions.                                 *)
(***************************************************************************)
\* ExtensionIdentifier.toKey: the lower-cased identifier
ToKey(id) ==
    CASE id = "A" -> "a"
      [] id = "B" -> "b"
      [] id = "C" -> "c"
      [] id = "D" -> "d"
      [] id = "E" -> "e"
      [] OTHER -> id

Keys == {"a", "b", "c", "d", "e"}

NoId == "none"

\* IExtensionDescription: what the service reads of it
Desc(id, events, deps, hasMain, api) ==
    [identifier |-> id, activationEvents |-> events,
     extensionDependencies |-> deps, main |-> hasMain, api |-> api]

\* depends on "b", which no registry of the lifecycle runs ever holds
ExtA == Desc("a", {"onCommand:x"}, {"b"}, TRUE, "")
\* no dependencies; also the resolver of the "ssh" authority prefix
ExtC == Desc("c", {"onCommand:x", "onResolveRemoteAuthority:ssh"}, {}, TRUE, "")
\* depends on "c"; activated by a command only
ExtD == Desc("D", {"onCommand:y"}, {"C"}, TRUE, "")
\* depends on "c"; activated eagerly
ExtE == Desc("E", {"*", "onStartupFinished"}, {"C"}, TRUE, "")

(***************************************************************************)
(* ExtensionDescriptionRegistry: a registry is the set of its              *)
(* descriptions.                                                           *)
(***************************************************************************)
\* getExtensionDescription: the descriptions under the identifier's key
GetExtensionDescription(registry, id) ==
    {d \in registry : ToKey(d.identifier) = ToKey(id)}

HasExtension(registry, id) == GetExtensionDescription(registry, id) # {}

\* getExtensionDescriptionsForActivationEvent
DescriptionsForActivationEvent(registry, event) ==
    {d \in registry : event \in d.activationEvents}

\* deltaExtensions(toAdd, toRemove): remove, then add
DeltaExtensions(registry, toAdd, toRemove) ==
    {d \in registry : \A id \in toRemove : ToKey(id) # ToKey(d.identifier)}
        \cup toAdd

\* extensionIdentifiersArrayToSet
ExtensionIdentifiersArrayToSet(ids) == {ToKey(id) : id \in ids}

\* filterExtensions
FilterExtensions(globalReg, desiredExtensions) ==
    {d \in globalReg : ToKey(d.identifier) \in desiredExtensions}

\* IExtensionDescriptionDelta
Delta(toAdd, toRemove, myToAdd, myToRemove) ==
    [toAdd |-> toAdd, toRemove |-> toRemove,
     myToAdd |-> myToAdd, myToRemove |-> myToRemove]

\* mutant: the owned set is filtered out of the old global registry
ApplyExtensionsDelta_FilterOld(oldGlobalRegistry, oldMyRegistry, extensionsDelta) ==
    LET globalReg == DeltaExtensions(oldGlobalRegistry,
                         extensionsDelta.toAdd, extensionsDelta.toRemove)
        mySet == (ExtensionIdentifiersArrayToSet(
                      {d.identifier : d \in oldMyRegistry})
                    \ ExtensionIdentifiersArrayToSet(extensionsDelta.myToRemove))
                 \cup ExtensionIdentifiersArrayToSet(extensionsDelta.myToAdd)
    IN  [globalRegistry |-> globalReg,
         myExtensions |-> FilterExtensions(oldGlobalRegistry \cup extensionsDelta.toAdd, mySet)]

\* mutant: the owned identifiers are added first and removed afterwards
ApplyExtensionsDelta_AddThenRemove(oldGlobalRegistry, oldMyRegistry, extensionsDelta) ==
    LET globalReg == DeltaExtensions(oldGlobalRegistry,
                         extensionsDelta.toAdd, extensionsDelta.toRemove)
        mySet == (ExtensionIdentifiersArrayToSet(
                      {d.identifier : d \in oldMyRegistry})
                    \cup ExtensionIdentifiersArrayToSet(extensionsDelta.myToAdd))
                 \ ExtensionIdentifiersArrayToSet(extensionsDelta.myToRemove)
    IN  [globalRegistry |-> globalReg,
         myExtensions |-> FilterExtensions(globalReg, mySet)]

\* mutant: an identifier to remove that the registry does not know is an
\* error, and nothing is computed
ApplyExtensionsDelta_Strict(oldGlobalRegistry, oldMyRegistry, extensionsDelta) ==
    LET globalReg == DeltaExtensions(oldGlobalRegistry,
                         extensionsDelta.toAdd, extensionsDelta.toRemove)
        mySet == (ExtensionIdentifiersArrayToSet(
                      {d.identifier : d \in oldMyRegistry})
                    \ ExtensionIdentifiersArrayToSet(extensionsDelta.myToRemove))
                 \cup ExtensionIdentifiersArrayToSet(extensionsDelta.myToAdd)
    IN  IF \/ \E id \in extensionsDelta.toRemove :
                  \A d \in oldGlobalRegistry : ToKey(d.identifier) # ToKey(id)
           \/ \E id \in extensionsDelta.myToRemove :
                  \A d \in oldMyRegistry : ToKey(d.identifier) # ToKey(id)
        THEN [globalRegistry |-> {}, myExtensions |-> {}]
        ELSE [globalRegistry |-> globalReg,
              myExtensions |-> FilterExtensions(globalReg, mySet)]

\* _applyExtensionsDelta: the new pair, computed from the old pair
ApplyExtensionsDelta(oldGlobalRegistry, oldMyRegistry, extensionsDelta) ==
    LET globalReg == DeltaExtensions(oldGlobalRegistry,
                         extensionsDelta.toAdd, extensionsDelta.toRemove)
        mySet == (ExtensionIdentifiersArrayToSet(
                      {d.identifier : d \in oldMyRegistry})
                    \ ExtensionIdentifiersArrayToSet(extensionsDelta.myToRemove))
                 \cup ExtensionIdentifiersArrayToSet(extensionsDelta.myToAdd)
    IN  [globalRegistry |-> globalReg,
         myExtensions |-> FilterExtensions(globalReg, mySet)]

(***************************************************************************)
(* State.                                                                  *)
(***************************************************************************)
VARIABLES
    \* _initData: [autoStart, isRemote, hostExtensions]; fixed by the constructor
    initData,
    \* the four Barriers: TRUE when open
    almostReadyToRunExtensions,
    readyToStartExtensionHost,
    readyToRunExtensions,
    eagerExtensionsActivated,
    \* _globalRegistry, _myRegistry
    globalRegistry,
    myRegistry,
    \* _started
    started,
    \* where initialize() is
    initPc,
    \* where the promise chain of _startExtensionHost() is
    startPc,
    \* the $startExtensionHost calls so far and what each returned
    startResults,
    \* what errors.onUnexpectedError was given
    unexpectedErrors,
    \* how often each step of the start chain has run
    rounds,
    \* ExtensionsActivator: the activation record of every key
    operations,
    \* what onExtensionActivationError was given
    activationErrors,
    \* the entry points for whose requests the latest step of the ledger has
    \* invoked the actual activation procedure with ReadyToRunExtensions closed
    earlyOrigins,
    \* per key, the outcomes the settled requests for it have observed
    observed,
    \* the external requests: [kind, arg, pc, wait, ret]
    requests,
    \* _handleEagerExtensions: [folders, starWait, scan, logged, timer,
    \* startupFinished, fanOuts, rescans]; folders is the workspace, fanOuts
    \* counts the runs of _activateAllStartupFinished, rescans has for every
    \* change of the workspace the folders scanned and the scan of each key
    eager,
    \* the $deltaExtensions calls: [pc, delta, new]
    deltaCalls,
    \* _isTerminating
    isTerminating,
    \* how often terminate was called
    terminateCalls,
    \* per key, what _deactivate did: [hook, hookCalls, disposeCalls, logged]
    deactivations,
    \* the promise of _deactivateAll: [state, activatedExtensions]
    extensionsDeactivated,
    \* timeout(5000) in terminate: [state, clock, code]
    shutdownTimer,
    \* the codes hostUtils.exit was called with
    exits

barrierVars == <<almostReadyToRunExtensions, readyToStartExtensionHost,
                 readyToRunExtensions, eagerExtensionsActivated>>
registryVars == <<globalRegistry, myRegistry>>
startVars == <<started, initPc, startPc, startResults, unexpectedErrors, rounds>>
ledgerVars == <<operations, activationErrors, earlyOrigins>>
requestVars == <<requests, observed>>
shutdownVars == <<isTerminating, terminateCalls, deactivations,
                  extensionsDeactivated, shutdownTimer, exits>>
vars == <<initData, barrierVars, registryVars, startVars, ledgerVars,
          requestVars, eager, deltaCalls, shutdownVars>>

(***************************************************************************)
(* Activation records.                                                     *)
(***************************************************************************)
NoExports == <<>>

NoDesc == <<>>

\* a key with no record yet; loaded has what _doActivateExtension waits for
\* and has got, where the loading is followed part by part
NotActivated ==
    [state |-> "NotActivated", phase |-> "-", origin |-> "-", run |-> 0,
     desc |-> NoDesc, exports |-> NoExports, error |-> "none", missing |-> NoId,
     loaded |-> {}]

Settled(op) == op.state \in {"Activated", "ActivationFailed"}

\* the record of a finished activation: ActivatedExtension / FailedExtension
ActivatedOp(op, exports) ==
    [op EXCEPT !.state = "Activated", !.phase = "-", !.exports = exports]

FailedOp(op, error, missing) ==
    [op EXCEPT !.state = "ActivationFailed", !.phase = "-",
               !.error = error, !.missing = missing]

\* what the callers of an activation observe of its record
Outcome(op) ==
    IF op.state = "Activated" THEN <<"exports", op.exports>>
    ELSE IF op.state = "ActivationFailed" THEN <<"failure", op.error, op.missing>>
    ELSE <<"pending">>

(***************************************************************************)
(* The actual activation procedure, as far as it runs synchronously.       *)
(***************************************************************************)
\* _getEntryPoint
GetEntryPoint(desc) == desc.main

\* _doActivateExtension: an extension without entry point is empty,
\* otherwise the module and the context are loaded
DoActivateExtension(op) ==
    IF ~GetEntryPoint(op.desc)
    THEN ActivatedOp(op, NoExports)
    ELSE [op EXCEPT !.phase = "load"]

\* _activateExtension: the local host waits for $onWillActivateExtension
ActivateExtension(op) ==
    IF ~initData.isRemote
    THEN [op EXCEPT !.phase = "willActivate"]
    ELSE DoActivateExtension(op)

\* mutant: every extension is activated from its description
ActualActivateExtension_AlwaysLocal(op, key, registry) ==
    LET running == [op EXCEPT !.run = op.run + 1]
    IN  IF ~HasExtension(registry, key)
        THEN FailedOp(running, "TypeError", NoId)
        ELSE ActivateExtension(
                 [running EXCEPT !.desc =
                     CHOOSE d \in GetExtensionDescription(registry, key) : TRUE])

\* actualActivateExtension (the activator's host callback): a host extension
\* is activated by the main thread, any other one from its description in
\* the owned registry; without one, reading the identifier of undefined throws
ActualActivateExtension(op, key, registry) ==
    LET running == [op EXCEPT !.run = op.run + 1]
    IN  IF key \in initData.hostExtensions
        THEN [running EXCEPT !.phase = "host"]
        ELSE IF ~HasExtension(registry, key)
        THEN FailedOp(running, "TypeError", NoId)
        ELSE ActivateExtension(
                 [running EXCEPT !.desc =
                     CHOOSE d \in GetExtensionDescription(registry, key) : TRUE])

(***************************************************************************)
(* ExtensionsActivator: the activation ledger.                             *)
(***************************************************************************)
\* mutant: the dependencies are requested and not waited for
DepsSettledIn_NoWait(ops, desc) == TRUE

\* the dependencies of a description have all settled
DepsSettledIn(ops, desc) ==
    \A d \in desc.extensionDependencies : Settled(ops[ToKey(d)])

RECURSIVE HandleActivationRequest(_, _, _, _)
RECURSIVE ActivateDependencies(_, _, _, _)

\* the dependencies are requested one after the other
ActivateDependencies(ops, registry, deps, origin) ==
    IF deps = {} THEN ops
    ELSE LET d == CHOOSE x \in deps : TRUE
         IN  ActivateDependencies(
                 HandleActivationRequest(ops, registry, d, origin),
                 registry, deps \ {d}, origin)

\* a request for an identifier of the registry or of a host extension: join
\* the record there is, or make one. A host extension has no description
\* here and the actual activation procedure is invoked for it at once; any
\* other record is failed on a missing dependency, else Activating, its
\* dependencies requested first and the actual activation procedure invoked
\* once they have all settled
HandleActivationRequest(ops, registry, id, origin) ==
    LET key == ToKey(id)
    IN  IF ops[key].state # "NotActivated" THEN ops
        ELSE IF key \in initData.hostExtensions
        THEN [ops EXCEPT ![key] =
                 ActualActivateExtension(
                     [@ EXCEPT !.state = "Activating", !.origin = origin],
                     key, registry)]
        ELSE LET desc == CHOOSE d \in GetExtensionDescription(registry, id) : TRUE
                 missing == {d \in desc.extensionDependencies :
                                /\ ~HasExtension(registry, d)
                                /\ ToKey(d) \notin initData.hostExtensions}
                 new == [ops[key] EXCEPT !.origin = origin, !.desc = desc]
             IN  IF missing # {}
                 THEN [ops EXCEPT ![key] =
                          FailedOp(new, "MissingExtensionDependency",
                                   CHOOSE d \in missing : TRUE)]
                 ELSE LET activating ==
                              [ops EXCEPT ![key] =
                                  [new EXCEPT !.state = "Activating", !.phase = "deps"]]
                          withDeps == ActivateDependencies(activating, registry,
                                          desc.extensionDependencies, origin)
                      IN  IF DepsSettledIn(withDeps, desc)
                          THEN [withDeps EXCEPT ![key] =
                                   ActualActivateExtension(withDeps[key], key, registry)]
                          ELSE withDeps

RECURSIVE HandleActivationRequests(_, _, _, _)
HandleActivationRequests(ops, registry, ids, origin) ==
    IF ids = {} THEN ops
    ELSE LET id == CHOOSE x \in ids : TRUE
         IN  HandleActivationRequests(
                 HandleActivationRequest(ops, registry, id, origin),
                 registry, ids \ {id}, origin)

\* activateById: the identifier is known to the registry
ActivatorActivateById(ops, registry, id, origin) ==
    HandleActivationRequest(ops, registry, id, origin)

\* activateByEvent: every description of the registry that declares the event
EventMatches(registry, event) ==
    {ToKey(d.identifier) : d \in DescriptionsForActivationEvent(registry, event)}

ActivatorActivateByEvent(ops, registry, event, origin) ==
    HandleActivationRequests(ops, registry,
        {d.identifier : d \in DescriptionsForActivationEvent(registry, event)},
        origin)

\* isActivated / getActivatedExtension of the activator
ActivatorIsActivated(ops, id) == ops[ToKey(id)].state = "Activated"

AllSettled(ops, keys) == \A k \in keys : Settled(ops[k])

(***************************************************************************)
(* Service wrappers around the activator.                                  *)
(***************************************************************************)
\* mutant: the procedure is run for every request, past the activator
ActivateById_Direct(ops, id, origin) ==
    [ops EXCEPT ![ToKey(id)] =
        ActualActivateExtension(
            [@ EXCEPT !.state = "Activating", !.origin = origin],
            ToKey(id), myRegistry)]

\* _activateById
ActivateById(ops, id, origin) == ActivatorActivateById(ops, myRegistry, id, origin)

\* mutant: only one of the descriptions that declare the event is requested
ActivateByEvent_OneOnly(ops, event, origin) ==
    LET ids == {d.identifier :
                   d \in DescriptionsForActivationEvent(myRegistry, event)}
    IN  IF ids = {} THEN ops
        ELSE ActivatorActivateById(ops, myRegistry, CHOOSE id \in ids : TRUE,
                                   origin)

\* _activateByEvent
ActivateByEvent(ops, event, origin) ==
    ActivatorActivateByEvent(ops, myRegistry, event, origin)

\* mutant: the activator is asked whatever the barrier
IsActivated_Ungated(id) == ActivatorIsActivated(operations, id)

\* isActivated
IsActivated(id) ==
    IF readyToRunExtensions THEN ActivatorIsActivated(operations, id) ELSE FALSE

\* what a query for a record that has not settled fails with
NotActivatedError == <<"error", "NotActivated">>

\* getActivatedExtension of the activator: the record of an activation that
\* has settled, failed ones included (activateByIdWithErrors reads
\* activationFailed of what it is given); for any other key it throws
GetActivatedExtension(ops, id) ==
    IF Settled(ops[ToKey(id)]) THEN <<"record", ops[ToKey(id)]>>
    ELSE NotActivatedError

\* mutant: the exports are read whatever the barrier
GetExtensionExports_Ungated(id) ==
    LET extension == GetActivatedExtension(operations, id)
    IN  IF extension[1] = "record" THEN <<"exports", extension[2].exports>>
        ELSE extension

\* getExtensionExports: null while ReadyToRunExtensions is closed, then the
\* exports of what getActivatedExtension returns, or what it throws
GetExtensionExports(id) ==
    IF readyToRunExtensions
    THEN LET extension == GetActivatedExtension(operations, id)
         IN  IF extension[1] = "record"
             THEN <<"exports", extension[2].exports>>
             ELSE extension
    ELSE <<"null">>

\* The keys whose actual activation procedure a step has invoked, and the
\* keys whose activation it has failed.
Invoked(newOps) == {k \in Keys : newOps[k].run > operations[k].run}

NewlyFailed(newOps) ==
    {k \in Keys : newOps[k].state = "ActivationFailed"
                  /\ operations[k].state # "ActivationFailed"}

\* mutant: failures are not reported
CommitLedger_NoReport(newOps) ==
    /\ operations' =
           [k \in Keys |->
               IF newOps[k].run > 0 \/ Settled(newOps[k])
               THEN [newOps[k] EXCEPT !.origin = "-"] ELSE newOps[k]]
    /\ UNCHANGED activationErrors
    /\ earlyOrigins' =
           IF readyToRunExtensions THEN {}
           ELSE {newOps[k].origin : k \in Invoked(newOps)}

\* A step that changes the ledger: the new records are installed, every
\* failure is reported through onExtensionActivationError, and the origin of
\* a request is kept only until its actual activation procedure is invoked.
CommitLedger(newOps) ==
    /\ operations' =
           [k \in Keys |->
               IF newOps[k].run > 0 \/ Settled(newOps[k])
               THEN [newOps[k] EXCEPT !.origin = "-"] ELSE newOps[k]]
    /\ activationErrors' = activationErrors \cup
           {[id |-> k, error |-> newOps[k].error, missing |-> newOps[k].missing] :
               k \in NewlyFailed(newOps)}
    /\ earlyOrigins' =
           IF readyToRunExtensions THEN {}
           ELSE {newOps[k].origin : k \in Invoked(newOps)}

(***************************************************************************)
(* Construction.                                                           *)
(***************************************************************************)
\* the constructor: both registries, the host extensions, closed barriers
Constructed(allExtensions, myExtensions, autoStart, isRemote) ==
    LET myExtensionsSet == ExtensionIdentifiersArrayToSet(myExtensions)
    IN  /\ initData =
              [autoStart |-> autoStart, isRemote |-> isRemote,
               hostExtensions |->
                   {ToKey(d.identifier) :
                       d \in {e \in allExtensions :
                                 /\ ToKey(e.identifier) \notin myExtensionsSet
                                 /\ e.main /\ e.api = "none"}}]
        /\ almostReadyToRunExtensions = FALSE
        /\ readyToStartExtensionHost = FALSE
        /\ readyToRunExtensions = FALSE
        /\ eagerExtensionsActivated = FALSE
        /\ globalRegistry = allExtensions
        /\ myRegistry = FilterExtensions(allExtensions, myExtensionsSet)
        /\ started = FALSE
        /\ operations = [k \in Keys |-> NotActivated]

\* nothing is scanned: no folders, no check under way, nothing logged
NoEager ==
    [folders |-> {}, starWait |-> {}, scan |-> [k \in Keys |-> "-"],
     logged |-> {}, timer |-> "off", startupFinished |-> FALSE,
     fanOuts |-> 0, rescans |-> <<>>]

NoRequest == [kind |-> "-", arg |-> "-", pc |-> "idle", wait |-> {},
              ret |-> "-"]

\* a request that has returned
Done(kind, ret) == [NoRequest EXCEPT !.kind = kind, !.pc = "done", !.ret = ret]

Requests == DOMAIN requests

NotDeactivated ==
    [hook |-> "-", hookCalls |-> 0, disposeCalls |-> 0, logged |-> {}]

\* terminate has not been called
NotTerminating ==
    /\ isTerminating = FALSE
    /\ terminateCalls = 0
    /\ deactivations = [k \in Keys |-> NotDeactivated]
    /\ extensionsDeactivated = [state |-> "idle", activatedExtensions |-> {}]
    /\ shutdownTimer = [state |-> "off", clock |-> 0, code |-> 0]
    /\ exits = <<>>

\* nothing has been called yet
Quiet ==
    /\ initPc = "idle"
    /\ startPc = "none"
    /\ startResults = <<>>
    /\ unexpectedErrors = {}
    /\ rounds = [readyToRunOpened |-> 0, eagerRuns |-> 0, eagerOpened |-> 0]
    /\ activationErrors = {}
    /\ earlyOrigins = {}
    /\ observed = [k \in Keys |-> {}]
    /\ eager = NoEager
    /\ NotTerminating

Init ==
    /\ \E autoStart \in BOOLEAN :
           Constructed({ExtA, ExtC}, {"a", "C"}, autoStart, FALSE)
    /\ Quiet
    /\ requests = [r \in 1 .. MaxRequests |-> NoRequest]
    /\ deltaCalls = <<>>

(***************************************************************************)
(* initialize and _startExtensionHost.                                     *)
(***************************************************************************)
\* mutant: the start does not look at _started
AlreadyStarted_Never == FALSE

\* _startExtensionHost throws when the host was started before
AlreadyStarted == started

\* initialize(): up to the wait for _beforeAlmostReadyToRunExtensions
InitializeCall ==
    /\ initPc = "idle"
    /\ initPc' = "beforeAlmostReady"
    /\ UNCHANGED <<initData, deltaCalls, shutdownVars, barrierVars, registryVars, started, startPc,
                   startResults, unexpectedErrors, rounds, ledgerVars,
                   requestVars, eager>>

\* mutant: a failure of the setup hook is reported and initialize goes on
InitializeSetupSettles_GoesOn(ok) ==
    /\ initPc = "beforeAlmostReady"
    /\ almostReadyToRunExtensions' = TRUE
    /\ initPc' = "waitForInitializeCall"
    /\ unexpectedErrors' =
           IF ok THEN unexpectedErrors ELSE unexpectedErrors \cup {"SetupFailed"}
    /\ UNCHANGED <<initData, deltaCalls, shutdownVars, readyToStartExtensionHost, readyToRunExtensions,
                   eagerExtensionsActivated, registryVars, started, startPc,
                   startResults, rounds, ledgerVars, requestVars, eager>>

\* the setup hook has settled: AlmostReadyToRunExtensions opens, or the
\* failure is caught and handed to onUnexpectedError
InitializeSetupSettles(ok) ==
    /\ initPc = "beforeAlmostReady"
    /\ IF ok
       THEN /\ almostReadyToRunExtensions' = TRUE
            /\ initPc' = "waitForInitializeCall"
            /\ UNCHANGED unexpectedErrors
       ELSE /\ initPc' = "failed"
            /\ unexpectedErrors' = unexpectedErrors \cup {"SetupFailed"}
            /\ UNCHANGED almostReadyToRunExtensions
    /\ UNCHANGED <<initData, deltaCalls, shutdownVars, readyToStartExtensionHost, readyToRunExtensions,
                   eagerExtensionsActivated, registryVars, started, startPc,
                   startResults, rounds, ledgerVars, requestVars, eager>>

\* the workspace is initialized: ReadyToStartHost opens and, with autoStart,
\* _startExtensionHost is called; whatever is thrown goes to onUnexpectedError
InitializeWorkspaceSettles(ok) ==
    /\ initPc = "waitForInitializeCall"
    /\ IF ok
       THEN /\ readyToStartExtensionHost' = TRUE
            /\ initPc' = "done"
            /\ IF initData.autoStart
               THEN IF AlreadyStarted
                    THEN /\ unexpectedErrors' =
                                unexpectedErrors \cup {"AlreadyStarted"}
                         /\ UNCHANGED <<started, startPc>>
                    ELSE /\ started' = TRUE
                         /\ startPc' = "waitReadyToStart"
                         /\ UNCHANGED unexpectedErrors
               ELSE UNCHANGED <<started, startPc, unexpectedErrors>>
       ELSE /\ initPc' = "failed"
            /\ unexpectedErrors' = unexpectedErrors \cup {"WorkspaceFailed"}
            /\ UNCHANGED <<readyToStartExtensionHost, started, startPc>>
    /\ UNCHANGED <<initData, deltaCalls, shutdownVars, almostReadyToRunExtensions, readyToRunExtensions,
                   eagerExtensionsActivated, registryVars, startResults, rounds,
                   ledgerVars, requestVars, eager>>

\* mutant: only the global registry is replaced
InstallRegistries_GlobalOnly(new) ==
    /\ globalRegistry' = new.globalRegistry
    /\ myRegistry' = myRegistry

\* _globalRegistry.set and _myRegistry.set, one after the other with no
\* suspension point between them
InstallRegistries(new) ==
    /\ globalRegistry' = new.globalRegistry
    /\ myRegistry' = new.myExtensions

\* the deltas $startExtensionHost is called with
StartDeltas == {Delta({}, {}, {}, {}), Delta({ExtE}, {}, {"e"}, {})}

\* mutant: a start that is refused installs nothing
RpcStartExtensionHost_CheckFirst(extensionsDelta) ==
    /\ IF AlreadyStarted
       THEN /\ startResults' = Append(startResults, "AlreadyStarted")
            /\ UNCHANGED <<started, startPc, registryVars>>
       ELSE /\ InstallRegistries(
                   ApplyExtensionsDelta(globalRegistry, myRegistry, extensionsDelta))
            /\ started' = TRUE
            /\ startPc' = "waitReadyToStart"
            /\ startResults' = Append(startResults, "started")
    /\ UNCHANGED <<initData, deltaCalls, shutdownVars, barrierVars, initPc, unexpectedErrors, rounds,
                   ledgerVars, requestVars, eager>>

\* $startExtensionHost: the delta is installed, then _startExtensionHost is
\* called and what it throws is thrown to the caller
RpcStartExtensionHost(extensionsDelta) ==
    /\ InstallRegistries(
           ApplyExtensionsDelta(globalRegistry, myRegistry, extensionsDelta))
    /\ IF AlreadyStarted
       THEN /\ startResults' = Append(startResults, "AlreadyStarted")
            /\ UNCHANGED <<started, startPc>>
       ELSE /\ started' = TRUE
            /\ startPc' = "waitReadyToStart"
            /\ startResults' = Append(startResults, "started")
    /\ UNCHANGED <<initData, deltaCalls, shutdownVars, barrierVars, initPc, unexpectedErrors, rounds,
                   ledgerVars, requestVars, eager>>

\* mutant: the start does not wait for ReadyToStartHost
StartMayOpenReadyToRun_NoWait == TRUE

\* the barrier _startExtensionHost waits for
StartMayOpenReadyToRun == readyToStartExtensionHost

\* _startExtensionHost, after the wait for ReadyToStartHost:
\* ReadyToRunExtensions opens
StartOpenReadyToRun ==
    /\ startPc = "waitReadyToStart"
    /\ StartMayOpenReadyToRun
    /\ readyToRunExtensions' = TRUE
    /\ startPc' = "handleEager"
    /\ rounds' = [rounds EXCEPT !.readyToRunOpened = @ + 1]
    /\ UNCHANGED <<initData, deltaCalls, shutdownVars, almostReadyToRunExtensions,
                   readyToStartExtensionHost, eagerExtensionsActivated,
                   registryVars, started, initPc, startResults,
                   unexpectedErrors, ledgerVars, requestVars, eager>>

(***************************************************************************)
(* Eager activation.                                                       *)
(***************************************************************************)
\* the activation event the workspace-contains check looks for
WorkspaceContainsEvent == "workspaceContains:f"

\* _handleWorkspaceContainsEagerExtensions and every
\* _handleWorkspaceContainsEagerExtension up to its await: without folders
\* nothing is scanned; with folders an extension that is activated is
\* skipped and the check of every other owned one is awaited.
\* ReadyToRunExtensions is open here, so isActivated asks the activator.
HandleWorkspaceContainsEagerExtensions(folders, ops) ==
    [k \in Keys |->
        IF folders = {} \/ ~HasExtension(myRegistry, k) THEN "-"
        ELSE IF ActivatorIsActivated(ops, k) THEN "skipped"
        ELSE "checking"]

\* _handleEagerExtensions: '*' is activated, the workspace is scanned and
\* the timer of onStartupFinished is armed
StartHandleEager ==
    /\ startPc = "handleEager"
    /\ startPc' = "eager"
    /\ rounds' = [rounds EXCEPT !.eagerRuns = @ + 1]
    /\ LET newOps == ActivateByEvent(operations, "*", "eager")
       IN  /\ eager' = [eager EXCEPT
                  !.starWait = EventMatches(myRegistry, "*"),
                  !.scan = HandleWorkspaceContainsEagerExtensions(eager.folders,
                                                                  newOps),
                  !.timer = "armed"]
           /\ CommitLedger(newOps)
    /\ UNCHANGED <<initData, deltaCalls, shutdownVars, barrierVars, registryVars, started, initPc,
                   startResults, unexpectedErrors, requestVars>>

\* what checkActivateWorkspaceContainsExtension can settle with: no result,
\* a result for a description that declares the event, or no result after
\* an existence check that failed
CheckResults(key) ==
    {"none", "checkFails"} \cup
    IF \E d \in GetExtensionDescription(myRegistry, key) :
           WorkspaceContainsEvent \in d.activationEvents
    THEN {"match"} ELSE {}

\* _handleWorkspaceContainsEagerExtension, after its await: without a result
\* it returns, with one the extension is activated; the check logs an
\* existence check that failed and gives no result
WorkspaceContainsCheckSettles(key, result) ==
    /\ eager.scan[key] = "checking"
    /\ result \in CheckResults(key)
    /\ CASE result = "none" ->
              /\ eager' = [eager EXCEPT !.scan[key] = "noMatch"]
              /\ UNCHANGED ledgerVars
         [] result = "checkFails" ->
              /\ eager' = [eager EXCEPT !.scan[key] = "noMatch",
                                        !.logged = @ \cup {key}]
              /\ UNCHANGED ledgerVars
         [] OTHER ->
              /\ eager' = [eager EXCEPT !.scan[key] = "activating"]
              /\ CommitLedger(ActivateById(operations, key, "eager"))
    /\ UNCHANGED <<initData, deltaCalls, shutdownVars, barrierVars, registryVars, startVars, requestVars>>

\* the check of an extension is never answered
WorkspaceContainsCheckHangs(key) ==
    /\ eager.scan[key] = "checking"
    /\ eager' = [eager EXCEPT !.scan[key] = "hung"]
    /\ UNCHANGED <<initData, deltaCalls, shutdownVars, barrierVars, registryVars, startVars, ledgerVars,
                   requestVars>>

\* the folders a workspace can have
Folders == {"folder", "other"}

\* how many changes of the workspace there are
MaxWorkspaceChanges == 2

\* mutant: a change of the workspace scans every folder of the workspace
DidChangeWorkspace_AllFolders(added, removed) ==
    /\ rounds.eagerRuns > 0
    /\ Len(eager.rescans) < MaxWorkspaceChanges
    /\ added \subseteq Folders \ eager.folders
    /\ removed \subseteq eager.folders
    /\ added \cup removed # {}
    /\ LET folders == (eager.folders \ removed) \cup added
       IN  eager' = [eager EXCEPT
               !.folders = folders,
               !.rescans = Append(@,
                   [folders |-> folders,
                    scan |-> HandleWorkspaceContainsEagerExtensions(folders,
                                                                    operations)])]
    /\ UNCHANGED <<initData, deltaCalls, shutdownVars, barrierVars, registryVars, startVars, ledgerVars,
                   requestVars>>

\* the listener of onDidChangeWorkspace, registered by
\* _handleEagerExtensions: the folders the event reports as added are
\* scanned, and the promise of that scan is dropped
DidChangeWorkspace(added, removed) ==
    /\ rounds.eagerRuns > 0
    /\ Len(eager.rescans) < MaxWorkspaceChanges
    /\ added \subseteq Folders \ eager.folders
    /\ removed \subseteq eager.folders
    /\ added \cup removed # {}
    /\ eager' = [eager EXCEPT
           !.folders = (@ \ removed) \cup added,
           !.rescans = Append(@,
               [folders |-> added,
                scan |-> HandleWorkspaceContainsEagerExtensions(added, operations)])]
    /\ UNCHANGED <<initData, deltaCalls, shutdownVars, barrierVars, registryVars, startVars, ledgerVars,
                   requestVars>>

\* _handleWorkspaceContainsEagerExtension of a later scan, after its await
RescanCheckSettles(i, key, result) ==
    /\ i \in DOMAIN eager.rescans
    /\ eager.rescans[i].scan[key] = "checking"
    /\ result \in CheckResults(key)
    /\ CASE result = "none" ->
              /\ eager' = [eager EXCEPT !.rescans[i].scan[key] = "noMatch"]
              /\ UNCHANGED ledgerVars
         [] result = "checkFails" ->
              /\ eager' = [eager EXCEPT !.rescans[i].scan[key] = "noMatch",
                                        !.logged = @ \cup {key}]
              /\ UNCHANGED ledgerVars
         [] OTHER ->
              /\ eager' = [eager EXCEPT !.rescans[i].scan[key] = "activating"]
              /\ CommitLedger(ActivateById(operations, key, "eager"))
    /\ UNCHANGED <<initData, deltaCalls, shutdownVars, barrierVars, registryVars, startVars, requestVars>>

\* mutant: a failed activation keeps the promise of its scan from resolving
ScanResolved_UnlessFailed(key) ==
    \/ eager.scan[key] \in {"-", "skipped", "noMatch"}
    \/ eager.scan[key] = "activating" /\ operations[key].state = "Activated"

\* the promise of one _handleWorkspaceContainsEagerExtension has resolved
ScanResolved(key) ==
    \/ eager.scan[key] \in {"-", "skipped", "noMatch"}
    \/ eager.scan[key] = "activating" /\ Settled(operations[key])

\* starActivation and workspaceContainsActivation have both resolved
EagerExtensionsActivationSettled ==
    /\ startPc \in {"eager", "done"}
    /\ AllSettled(operations, eager.starWait)
    /\ \A k \in Keys : ScanResolved(k)

\* mutant: the timer of onStartupFinished opens the final latch as well
StartEagerDone_OnTimer ==
    /\ startPc = "eager"
    /\ EagerExtensionsActivationSettled \/ eager.timer = "fired"
    /\ eagerExtensionsActivated' = TRUE
    /\ startPc' = "done"
    /\ rounds' = [rounds EXCEPT !.eagerOpened = @ + 1]
    /\ UNCHANGED <<initData, deltaCalls, shutdownVars, almostReadyToRunExtensions,
                   readyToStartExtensionHost, readyToRunExtensions,
                   registryVars, started, initPc, startResults,
                   unexpectedErrors, ledgerVars, requestVars, eager>>

\* the last step of _startExtensionHost: EagerExtensionsActivated opens
StartEagerDone ==
    /\ startPc = "eager"
    /\ EagerExtensionsActivationSettled
    /\ eagerExtensionsActivated' = TRUE
    /\ startPc' = "done"
    /\ rounds' = [rounds EXCEPT !.eagerOpened = @ + 1]
    /\ UNCHANGED <<initData, deltaCalls, shutdownVars, almostReadyToRunExtensions,
                   readyToStartExtensionHost, readyToRunExtensions,
                   registryVars, started, initPc, startResults,
                   unexpectedErrors, ledgerVars, requestVars, eager>>

\* mutant: the timer is dropped when it is due
StartupTimerFires_Dropped ==
    /\ eager.timer = "armed"
    /\ eager' = [eager EXCEPT !.timer = "off"]
    /\ UNCHANGED <<initData, deltaCalls, shutdownVars, barrierVars, registryVars, startVars, ledgerVars,
                   requestVars>>

\* timeout(10000) of _handleEagerExtensions fires
StartupTimerFires ==
    /\ eager.timer = "armed"
    /\ eager' = [eager EXCEPT !.timer = "fired"]
    /\ UNCHANGED <<initData, deltaCalls, shutdownVars, barrierVars, registryVars, startVars, ledgerVars,
                   requestVars>>

\* mutant: the fan-out does not wait for the race of line 631
ActivateAllStartupFinished_Early ==
    /\ ~eager.startupFinished
    /\ startPc \in {"eager", "done"}
    /\ eager' = [eager EXCEPT !.startupFinished = TRUE, !.timer = "off",
                              !.fanOuts = @ + 1]
    /\ CommitLedger(ActivateByEvent(operations, "onStartupFinished", "eager"))
    /\ UNCHANGED <<initData, deltaCalls, shutdownVars, barrierVars, registryVars, startVars, requestVars>>

\* _activateAllStartupFinished, run by whichever of the eager activation and
\* the timer is first
ActivateAllStartupFinished ==
    /\ ~eager.startupFinished
    /\ EagerExtensionsActivationSettled \/ eager.timer = "fired"
    /\ eager' = [eager EXCEPT !.startupFinished = TRUE, !.timer = "off",
                              !.fanOuts = @ + 1]
    /\ CommitLedger(ActivateByEvent(operations, "onStartupFinished", "eager"))
    /\ UNCHANGED <<initData, deltaCalls, shutdownVars, barrierVars, registryVars, startVars, requestVars>>

(***************************************************************************)
(* The actual activation procedure, step by step.                          *)
(***************************************************************************)
\* the dependencies of an Activating record have all settled: the activator
\* invokes the actual activation procedure
DependenciesSettled(key) ==
    /\ operations[key].phase = "deps"
    /\ DepsSettledIn(operations, operations[key].desc)
    /\ CommitLedger([operations EXCEPT ![key] =
                        ActualActivateExtension(@, key, myRegistry)])
    /\ UNCHANGED <<initData, deltaCalls, shutdownVars, barrierVars, registryVars, startVars, requestVars,
                   eager>>

\* $onWillActivateExtension has returned: _doActivateExtension
WillActivateSettles(key) ==
    /\ operations[key].phase = "willActivate"
    /\ CommitLedger([operations EXCEPT ![key] = DoActivateExtension(@)])
    /\ UNCHANGED <<initData, deltaCalls, shutdownVars, barrierVars, registryVars, startVars, requestVars,
                   eager>>

\* $activateExtension of the main thread has settled: with success the record
\* is a HostExtension, which has no exports and no subscriptions; a failure
\* is the failure of the activation
HostActivationSettles(key, ok) ==
    /\ operations[key].phase = "host"
    /\ CommitLedger([operations EXCEPT ![key] =
           IF ok THEN ActivatedOp(@, NoExports)
           ELSE FailedOp(@, "HostActivationError", NoId)])
    /\ UNCHANGED <<initData, deltaCalls, shutdownVars, barrierVars, registryVars, startVars, requestVars,
                   eager>>

\* the module and the context are loaded (or one of them has failed), and
\* _callActivate calls the module's activate, if it has one
LoadOutcomes == {"loadFails", "noActivate", "activateThrows", "activateCalled"}

LoadSettles(key, outcome) ==
    /\ operations[key].phase = "load"
    /\ CommitLedger([operations EXCEPT ![key] =
           CASE outcome = "loadFails" -> FailedOp(@, "LoadError", NoId)
             [] outcome = "noActivate" -> ActivatedOp(@, <<key, "module">>)
             [] outcome = "activateThrows" -> FailedOp(@, "ActivateError", NoId)
             [] OTHER -> [@ EXCEPT !.phase = "activate"]])
    /\ UNCHANGED <<initData, deltaCalls, shutdownVars, barrierVars, registryVars, startVars, requestVars,
                   eager>>

\* what _doActivateExtension waits for: the module, and for the context the
\* two mementos and the storage paths
LoadParts == {"module", "globalState", "workspaceState", "storagePath"}

\* _loadCommonJSModule, or one of the three promises _loadExtensionContext
\* waits for, has settled: a failure rejects the join at once
LoadPartSettles(key, part, ok) ==
    /\ operations[key].phase = "load"
    /\ part \in LoadParts \ operations[key].loaded
    /\ CommitLedger([operations EXCEPT ![key] =
           IF ok THEN [@ EXCEPT !.loaded = @ \cup {part}]
           ELSE FailedOp(@, "LoadError", NoId)])
    /\ UNCHANGED <<initData, deltaCalls, shutdownVars, barrierVars, registryVars, startVars, requestVars,
                   eager>>

\* mutant: activate is called as soon as the module is loaded
CallActivate_AfterModule(key, outcome) ==
    /\ "module" \in operations[key].loaded
    /\ outcome # "loadFails"
    /\ LoadSettles(key, outcome)

\* the continuation of the join: _callActivate, with the module and the
\* context
CallActivate(key, outcome) ==
    /\ operations[key].loaded = LoadParts
    /\ outcome # "loadFails"
    /\ LoadSettles(key, outcome)

\* what activate returned has settled
ActivateSettles(key, ok) ==
    /\ operations[key].phase = "activate"
    /\ CommitLedger([operations EXCEPT ![key] =
           IF ok THEN ActivatedOp(@, <<key, @.run>>)
           ELSE FailedOp(@, "ActivateError", NoId)])
    /\ UNCHANGED <<initData, deltaCalls, shutdownVars, barrierVars, registryVars, startVars, requestVars,
                   eager>>

(***************************************************************************)
(* The entry points that request activations.                              *)
(***************************************************************************)
\* the identifiers and events the requests name; "b" is in no registry
RequestIds == {"a", "C", "b"}

RequestEvents == {"onCommand:x"}

RemoteAuthorities == {"ssh+host", "local"}

NoPrefix == "-"

\* the text before the '+' of a remote authority
AuthorityPrefix(remoteAuthority) ==
    IF remoteAuthority = "ssh+host" THEN "ssh" ELSE NoPrefix

\* the slots are used in order
Free(r) ==
    /\ requests[r].pc = "idle"
    /\ \A q \in Requests : q < r => requests[q].pc # "idle"

\* some extension's code has run: only extensions call Extension.activate
ExtensionCodeHasRun ==
    \E k \in Keys :
        /\ operations[k].run > 0
        /\ operations[k].phase = "activate" \/ operations[k].state = "Activated"

RequestUnchanged ==
    UNCHANGED <<initData, deltaCalls, shutdownVars, barrierVars, registryVars, startVars, eager>>


\* $activate: up to the wait for ReadyToRunExtensions
RpcActivateCall(r, id) ==
    /\ Free(r)
    /\ requests' = [requests EXCEPT ![r] =
           [NoRequest EXCEPT !.kind = "$activate", !.arg = id, !.pc = "waitReady"]]
    /\ UNCHANGED <<ledgerVars, observed>>
    /\ RequestUnchanged

\* mutant: $activate waits for the wrong barrier
ActivateMayResume_AlmostReady == almostReadyToRunExtensions

\* the barrier $activate waits for
ActivateMayResume == readyToRunExtensions

\* mutant: $activate answers true for an identifier it does not know
RpcActivateResume_AlwaysTrue(r) ==
    /\ requests[r].kind = "$activate"
    /\ requests[r].pc = "waitReady"
    /\ ActivateMayResume
    /\ IF ~HasExtension(myRegistry, requests[r].arg)
       THEN /\ requests' = [requests EXCEPT ![r] = Done("$activate", "true")]
            /\ UNCHANGED ledgerVars
       ELSE /\ requests' = [requests EXCEPT ![r].pc = "joined",
                                            ![r].wait = {ToKey(requests[r].arg)}]
            /\ CommitLedger(ActivateById(operations, requests[r].arg, "$activate"))
    /\ UNCHANGED observed
    /\ RequestUnchanged

\* $activate, after the wait: an identifier the owned registry does not
\* know is ignored, any other one is activated
RpcActivateResume(r) ==
    /\ requests[r].kind = "$activate"
    /\ requests[r].pc = "waitReady"
    /\ ActivateMayResume
    /\ IF ~HasExtension(myRegistry, requests[r].arg)
       THEN /\ requests' = [requests EXCEPT ![r] = Done("$activate", "false")]
            /\ UNCHANGED ledgerVars
       ELSE /\ requests' = [requests EXCEPT ![r].pc = "joined",
                                            ![r].wait = {ToKey(requests[r].arg)}]
            /\ CommitLedger(ActivateById(operations, requests[r].arg, "$activate"))
    /\ UNCHANGED observed
    /\ RequestUnchanged

\* $activateByEvent: the Immediate kind is forwarded at once, the other
\* kind waits for ReadyToRunExtensions
RpcActivateByEventCall(r, event, immediate) ==
    /\ Free(r)
    /\ IF immediate
       THEN /\ requests' = [requests EXCEPT ![r] =
                   [NoRequest EXCEPT !.kind = "$activateByEvent:Immediate",
                                     !.arg = event, !.pc = "joined",
                                     !.wait = EventMatches(myRegistry, event)]]
            /\ CommitLedger(ActivateByEvent(operations, event,
                                            "$activateByEvent:Immediate"))
       ELSE /\ requests' = [requests EXCEPT ![r] =
                   [NoRequest EXCEPT !.kind = "$activateByEvent:Normal",
                                     !.arg = event, !.pc = "waitReady"]]
            /\ UNCHANGED ledgerVars
    /\ UNCHANGED observed
    /\ RequestUnchanged

\* mutant: the wait of $activateByEvent gives up
ActivateByEventMayResume_GivesUp == TRUE

\* the barrier $activateByEvent waits for when the kind is not Immediate
ActivateByEventMayResume == readyToRunExtensions

RpcActivateByEventResume(r) ==
    /\ requests[r].kind = "$activateByEvent:Normal"
    /\ requests[r].pc = "waitReady"
    /\ ActivateByEventMayResume
    /\ requests' = [requests EXCEPT ![r].pc = "joined",
                        ![r].wait = EventMatches(myRegistry, requests[r].arg)]
    /\ CommitLedger(ActivateByEvent(operations, requests[r].arg,
                                    "$activateByEvent:Normal"))
    /\ UNCHANGED observed
    /\ RequestUnchanged

\* activateByIdWithErrors (Extension.activate): no wait for any barrier;
\* the activator throws for an identifier its registry does not know
ActivateByIdWithErrorsCall(r, id) ==
    /\ Free(r)
    /\ ExtensionCodeHasRun
    /\ IF ~HasExtension(myRegistry, id)
       THEN /\ requests' = [requests EXCEPT ![r] =
                   Done("activateByIdWithErrors", "UnknownExtension")]
            /\ UNCHANGED ledgerVars
       ELSE /\ requests' = [requests EXCEPT ![r] =
                   [NoRequest EXCEPT !.kind = "activateByIdWithErrors",
                                     !.arg = id, !.pc = "joined",
                                     !.wait = {ToKey(id)}]]
            /\ CommitLedger(ActivateById(operations, id, "activateByIdWithErrors"))
    /\ UNCHANGED observed
    /\ RequestUnchanged

\* Extension.exports, read by the code of an extension: the answer of
\* getExtensionExports
GetExtensionExportsCall(r, id) ==
    /\ Free(r)
    /\ ExtensionCodeHasRun
    /\ requests' = [requests EXCEPT ![r] =
           [Done("getExtensionExports", GetExtensionExports(id)) EXCEPT !.arg = id]]
    /\ UNCHANGED <<ledgerVars, observed>>
    /\ RequestUnchanged

\* Extension.isActive, read by the code of an extension: the answer of
\* isActivated
IsActiveCall(r, id) ==
    /\ Free(r)
    /\ ExtensionCodeHasRun
    /\ requests' = [requests EXCEPT ![r] =
           [Done("isActive", <<"isActive", IsActivated(id)>>) EXCEPT !.arg = id]]
    /\ UNCHANGED <<ledgerVars, observed>>
    /\ RequestUnchanged

\* _activateAndGetResolver ($resolveAuthority, $getCanonicalURI): an
\* authority without '+' is refused, any other one waits for
\* AlmostReadyToRunExtensions
ResolveAuthorityCall(r, remoteAuthority) ==
    /\ Free(r)
    /\ requests' = [requests EXCEPT ![r] =
           IF AuthorityPrefix(remoteAuthority) = NoPrefix
           THEN Done("resolveAuthority", "NotAnAuthority")
           ELSE [NoRequest EXCEPT !.kind = "resolveAuthority",
                                  !.arg = remoteAuthority, !.pc = "waitAlmostReady"]]
    /\ UNCHANGED <<ledgerVars, observed>>
    /\ RequestUnchanged

\* the barrier _activateAndGetResolver waits for
ResolverMayResume == almostReadyToRunExtensions

ResolveAuthorityResume(r) ==
    /\ requests[r].kind = "resolveAuthority"
    /\ requests[r].pc = "waitAlmostReady"
    /\ ResolverMayResume
    /\ LET event == "onResolveRemoteAuthority:ssh"
       IN  /\ requests' = [requests EXCEPT ![r].pc = "joined",
                               ![r].wait = EventMatches(myRegistry, event)]
           /\ CommitLedger(ActivateByEvent(operations, event, "resolveAuthority"))
    /\ UNCHANGED observed
    /\ RequestUnchanged

\* mutant: activateByIdWithErrors resolves like the other entry points
Returned_Swallowed(req) ==
    CASE req.kind = "$activate" -> "true"
      [] OTHER -> "resolved"

\* what a request returns once everything it waits for has settled
Returned(req) ==
    CASE req.kind = "$activate" -> "true"
      [] req.kind = "activateByIdWithErrors" ->
            (LET op == operations[ToKey(req.arg)]
             IN  IF op.state = "ActivationFailed" THEN op.error ELSE "resolved")
      [] OTHER -> "resolved"

\* the activations a request waits for have settled: it returns, having
\* observed the outcome of each
RequestSettles(r) ==
    /\ requests[r].pc = "joined"
    /\ AllSettled(operations, requests[r].wait)
    /\ requests' = [requests EXCEPT ![r] =
           Done(requests[r].kind, Returned(requests[r]))]
    /\ observed' = [k \in Keys |->
           IF k \in requests[r].wait
           THEN observed[k] \cup {Outcome(operations[k])}
           ELSE observed[k]]
    /\ UNCHANGED ledgerVars
    /\ RequestUnchanged

(***************************************************************************)
(* The lifecycle: start-up and activation.                                 *)
(***************************************************************************)
Next ==
    \/ InitializeCall
    \/ \E ok \in BOOLEAN : InitializeSetupSettles(ok)
    \/ \E ok \in BOOLEAN : InitializeWorkspaceSettles(ok)
    \/ /\ Len(startResults) < MaxStartCalls
       /\ \E d \in StartDeltas : RpcStartExtensionHost(d)
    \/ StartOpenReadyToRun
    \/ StartHandleEager
    \/ StartEagerDone
    \/ StartupTimerFires
    \/ ActivateAllStartupFinished
    \/ \E k \in Keys : DependenciesSettled(k)
    \/ \E k \in Keys : WillActivateSettles(k)
    \/ \E k \in Keys, o \in LoadOutcomes : LoadSettles(k, o)
    \/ \E k \in Keys, ok \in BOOLEAN : ActivateSettles(k, ok)
    \/ \E r \in Requests, id \in RequestIds : RpcActivateCall(r, id)
    \/ \E r \in Requests : RpcActivateResume(r)
    \/ \E r \in Requests, e \in RequestEvents, i \in BOOLEAN :
           RpcActivateByEventCall(r, e, i)
    \/ \E r \in Requests : RpcActivateByEventResume(r)
    \/ \E r \in Requests, id \in RequestIds : ActivateByIdWithErrorsCall(r, id)
    \/ \E r \in Requests, a \in RemoteAuthorities : ResolveAuthorityCall(r, a)
    \/ \E r \in Requests : ResolveAuthorityResume(r)
    \/ \E r \in Requests : RequestSettles(r)

Spec == Init /\ [][Next]_vars

(***************************************************************************)
(* The started host: requests that overlap.                                *)
(***************************************************************************)
\* The state the lifecycle reaches when initialize and the start have run
\* to their end and no description declares '*' or onStartupFinished.
StartedInit ==
    /\ initData = [autoStart |-> TRUE, isRemote |-> FALSE, hostExtensions |-> {}]
    /\ almostReadyToRunExtensions = TRUE
    /\ readyToStartExtensionHost = TRUE
    /\ readyToRunExtensions = TRUE
    /\ eagerExtensionsActivated = TRUE
    /\ globalRegistry = {ExtA, ExtC, ExtD}
    /\ myRegistry = FilterExtensions({ExtA, ExtC, ExtD},
                        ExtensionIdentifiersArrayToSet({"a", "C", "d"}))
    /\ started = TRUE
    /\ operations = [k \in Keys |-> NotActivated]
    /\ initPc = "done"
    /\ startPc = "done"
    /\ startResults = <<>>
    /\ unexpectedErrors = {}
    /\ rounds = [readyToRunOpened |-> 1, eagerRuns |-> 1, eagerOpened |-> 1]
    /\ activationErrors = {}
    /\ earlyOrigins = {}
    /\ observed = [k \in Keys |-> {}]
    /\ eager = [NoEager EXCEPT !.startupFinished = TRUE, !.fanOuts = 1]
    /\ requests = [r \in 1 .. MaxOverlap |-> NoRequest]
    /\ deltaCalls = <<>>
    /\ NotTerminating

\* the identifiers the overlapping requests name
OverlapIds == {"a", "C", "d"}

NextStarted ==
    \/ \E k \in Keys : DependenciesSettled(k)
    \/ \E k \in Keys : WillActivateSettles(k)
    \/ \E k \in Keys, o \in LoadOutcomes : LoadSettles(k, o)
    \/ \E k \in Keys, ok \in BOOLEAN : ActivateSettles(k, ok)
    \/ \E r \in Requests, id \in OverlapIds : RpcActivateCall(r, id)
    \/ \E r \in Requests : RpcActivateResume(r)
    \/ \E r \in Requests, id \in OverlapIds : ActivateByIdWithErrorsCall(r, id)
    \/ \E r \in Requests : RequestSettles(r)

SpecStarted == StartedInit /\ [][NextStarted]_vars

(***************************************************************************)
(* The eager scanner in a workspace with folders.                          *)
(***************************************************************************)
\* an extension the workspace-contains check can match
ExtB == Desc("b", {WorkspaceContainsEvent, "onStartupFinished"}, {}, TRUE, "")

\* The state the lifecycle reaches when initialize has run to its end and
\* the start waits for ReadyToStartHost; the workspace has a folder or none.
EagerInit ==
    /\ initData = [autoStart |-> TRUE, isRemote |-> FALSE, hostExtensions |-> {}]
    /\ almostReadyToRunExtensions = TRUE
    /\ readyToStartExtensionHost = TRUE
    /\ readyToRunExtensions = FALSE
    /\ eagerExtensionsActivated = FALSE
    /\ globalRegistry = {ExtB, ExtC, ExtE}
    /\ myRegistry = FilterExtensions({ExtB, ExtC, ExtE},
                        ExtensionIdentifiersArrayToSet({"b", "C", "e"}))
    /\ started = TRUE
    /\ operations = [k \in Keys |-> NotActivated]
    /\ initPc = "done"
    /\ startPc = "waitReadyToStart"
    /\ startResults = <<>>
    /\ unexpectedErrors = {}
    /\ rounds = [readyToRunOpened |-> 0, eagerRuns |-> 0, eagerOpened |-> 0]
    /\ activationErrors = {}
    /\ earlyOrigins = {}
    /\ observed = [k \in Keys |-> {}]
    /\ \E folders \in {{}, {"folder"}} : eager = [NoEager EXCEPT !.folders = folders]
    /\ requests = <<>>
    /\ deltaCalls = <<>>
    /\ NotTerminating

\* what activate returned never settles
ActivateHangs(key) ==
    /\ operations[key].phase = "activate"
    /\ CommitLedger([operations EXCEPT ![key].phase = "hung"])
    /\ UNCHANGED <<initData, deltaCalls, shutdownVars, barrierVars, registryVars, startVars, requestVars,
                   eager>>

\* the steps that are taken when they can be: the timer fires,
\* continuations run, and a check or an activation that does not hang settles
EagerProgress ==
    \/ StartOpenReadyToRun
    \/ StartHandleEager
    \/ \E k \in Keys, res \in {"none", "checkFails", "match"} :
           WorkspaceContainsCheckSettles(k, res)
    \/ StartEagerDone
    \/ StartupTimerFires
    \/ ActivateAllStartupFinished
    \/ \E k \in Keys : DependenciesSettled(k)
    \/ \E k \in Keys : WillActivateSettles(k)
    \/ \E k \in Keys, o \in LoadOutcomes : LoadSettles(k, o)
    \/ \E k \in Keys, ok \in BOOLEAN : ActivateSettles(k, ok)

NextEager ==
    \/ EagerProgress
    \/ \E k \in Keys : WorkspaceContainsCheckHangs(k)
    \/ \E k \in Keys : ActivateHangs(k)

SpecEager == EagerInit /\ [][NextEager]_vars /\ WF_vars(EagerProgress)

\* The state of EagerInit with two extensions and the start past
\* ReadyToRunExtensions; the workspace has a folder or none.
RescanInit ==
    /\ initData = [autoStart |-> TRUE, isRemote |-> FALSE, hostExtensions |-> {}]
    /\ almostReadyToRunExtensions = TRUE
    /\ readyToStartExtensionHost = TRUE
    /\ readyToRunExtensions = TRUE
    /\ eagerExtensionsActivated = FALSE
    /\ globalRegistry = {ExtB, ExtC}
    /\ myRegistry = FilterExtensions({ExtB, ExtC},
                        ExtensionIdentifiersArrayToSet({"b", "C"}))
    /\ started = TRUE
    /\ operations = [k \in Keys |-> NotActivated]
    /\ initPc = "done"
    /\ startPc = "handleEager"
    /\ startResults = <<>>
    /\ unexpectedErrors = {}
    /\ rounds = [readyToRunOpened |-> 1, eagerRuns |-> 0, eagerOpened |-> 0]
    /\ activationErrors = {}
    /\ earlyOrigins = {}
    /\ observed = [k \in Keys |-> {}]
    /\ \E folders \in {{}, {"folder"}} : eager = [NoEager EXCEPT !.folders = folders]
    /\ requests = <<>>
    /\ deltaCalls = <<>>
    /\ NotTerminating

NextRescan ==
    \/ StartHandleEager
    \/ \E k \in Keys, res \in {"none", "checkFails", "match"} :
           WorkspaceContainsCheckSettles(k, res)
    \/ StartEagerDone
    \/ StartupTimerFires
    \/ ActivateAllStartupFinished
    \/ \E k \in Keys : WillActivateSettles(k)
    \/ \E k \in Keys, o \in LoadOutcomes : LoadSettles(k, o)
    \/ \E k \in Keys, ok \in BOOLEAN : ActivateSettles(k, ok)
    \/ \E added, removed \in SUBSET Folders : DidChangeWorkspace(added, removed)
    \/ \E i \in 1 .. MaxWorkspaceChanges, k \in Keys,
          res \in {"none", "checkFails", "match"} : RescanCheckSettles(i, k, res)

SpecRescan == RescanInit /\ [][NextRescan]_vars

(***************************************************************************)
(* The started host: activations by event and by identifier.               *)
(***************************************************************************)
\* a second extension that declares onCommand:x and depends on nothing
ExtX == Desc("d", {"onCommand:x"}, {}, TRUE, "")

\* how many calls overlap
MaxEventRequests == 2

\* The started host of StartedInit with three extensions that declare
\* onCommand:x: "a" depends on the unknown "b", "c" and "d" on nothing.
EventsInit ==
    /\ initData = [autoStart |-> TRUE, isRemote |-> FALSE, hostExtensions |-> {}]
    /\ almostReadyToRunExtensions = TRUE
    /\ readyToStartExtensionHost = TRUE
    /\ readyToRunExtensions = TRUE
    /\ eagerExtensionsActivated = TRUE
    /\ globalRegistry = {ExtA, ExtC, ExtX}
    /\ myRegistry = FilterExtensions({ExtA, ExtC, ExtX},
                        ExtensionIdentifiersArrayToSet({"a", "C", "d"}))
    /\ started = TRUE
    /\ operations = [k \in Keys |-> NotActivated]
    /\ initPc = "done"
    /\ startPc = "done"
    /\ startResults = <<>>
    /\ unexpectedErrors = {}
    /\ rounds = [readyToRunOpened |-> 1, eagerRuns |-> 1, eagerOpened |-> 1]
    /\ activationErrors = {}
    /\ earlyOrigins = {}
    /\ observed = [k \in Keys |-> {}]
    /\ eager = [NoEager EXCEPT !.startupFinished = TRUE, !.fanOuts = 1]
    /\ requests = [r \in 1 .. MaxEventRequests |-> NoRequest]
    /\ deltaCalls = <<>>
    /\ NotTerminating

\* the events the calls name; nothing declares onCommand:z
EventsRequested == {"onCommand:x", "onCommand:z"}

NextEvents ==
    \/ \E k \in Keys : WillActivateSettles(k)
    \/ \E k \in Keys, o \in LoadOutcomes : LoadSettles(k, o)
    \/ \E k \in Keys, ok \in BOOLEAN : ActivateSettles(k, ok)
    \/ \E r \in Requests, e \in EventsRequested, i \in BOOLEAN :
           RpcActivateByEventCall(r, e, i)
    \/ \E r \in Requests : RpcActivateByEventResume(r)
    \/ \E r \in Requests, id \in OverlapIds : RpcActivateCall(r, id)
    \/ \E r \in Requests : RpcActivateResume(r)
    \/ \E r \in Requests, id \in OverlapIds : ActivateByIdWithErrorsCall(r, id)
    \/ \E r \in Requests : RequestSettles(r)

SpecEvents == EventsInit /\ [][NextEvents]_vars

(***************************************************************************)
(* The started host with a host extension.                                 *)
(***************************************************************************)
\* an extension of another host: it is not owned, has an entry point and
\* its api is 'none'
ExtH == Desc("B", {"onCommand:x"}, {}, TRUE, "none")

\* The started host of StartedInit, constructed with "a", "c" and the host
\* extension "b", on which the owned "a" depends.
HostInit ==
    /\ initData = [autoStart |-> TRUE, isRemote |-> FALSE, hostExtensions |-> {"b"}]
    /\ almostReadyToRunExtensions = TRUE
    /\ readyToStartExtensionHost = TRUE
    /\ readyToRunExtensions = TRUE
    /\ eagerExtensionsActivated = TRUE
    /\ globalRegistry = {ExtA, ExtC, ExtH}
    /\ myRegistry = FilterExtensions({ExtA, ExtC, ExtH},
                        ExtensionIdentifiersArrayToSet({"a", "C"}))
    /\ started = TRUE
    /\ operations = [k \in Keys |-> NotActivated]
    /\ initPc = "done"
    /\ startPc = "done"
    /\ startResults = <<>>
    /\ unexpectedErrors = {}
    /\ rounds = [readyToRunOpened |-> 1, eagerRuns |-> 1, eagerOpened |-> 1]
    /\ activationErrors = {}
    /\ earlyOrigins = {}
    /\ observed = [k \in Keys |-> {}]
    /\ eager = [NoEager EXCEPT !.startupFinished = TRUE, !.fanOuts = 1]
    /\ requests = [r \in 1 .. MaxEventRequests |-> NoRequest]
    /\ deltaCalls = <<>>
    /\ NotTerminating

NextHost ==
    \/ \E k \in Keys, ok \in BOOLEAN : HostActivationSettles(k, ok)
    \/ \E k \in Keys : DependenciesSettled(k)
    \/ \E k \in Keys : WillActivateSettles(k)
    \/ \E k \in Keys, o \in LoadOutcomes : LoadSettles(k, o)
    \/ \E k \in Keys, ok \in BOOLEAN : ActivateSettles(k, ok)
    \/ \E r \in Requests, e \in RequestEvents, i \in BOOLEAN :
           RpcActivateByEventCall(r, e, i)
    \/ \E r \in Requests : RpcActivateByEventResume(r)
    \/ \E r \in Requests, id \in RequestIds : RpcActivateCall(r, id)
    \/ \E r \in Requests : RpcActivateResume(r)
    \/ \E r \in Requests, id \in RequestIds : ActivateByIdWithErrorsCall(r, id)
    \/ \E r \in Requests : RequestSettles(r)

SpecHost == HostInit /\ [][NextHost]_vars

(***************************************************************************)
(* The started host: one activation part by part.                          *)
(***************************************************************************)
\* an extension without entry point
ExtN == Desc("d", {"onCommand:x"}, {}, FALSE, "")

\* The started host of StartedInit, local or remote, with "c" and the empty
\* extension "d".
LoadingInit ==
    /\ \E isRemote \in BOOLEAN :
           initData = [autoStart |-> TRUE, isRemote |-> isRemote,
                       hostExtensions |-> {}]
    /\ almostReadyToRunExtensions = TRUE
    /\ readyToStartExtensionHost = TRUE
    /\ readyToRunExtensions = TRUE
    /\ eagerExtensionsActivated = TRUE
    /\ globalRegistry = {ExtC, ExtN}
    /\ myRegistry = FilterExtensions({ExtC, ExtN},
                        ExtensionIdentifiersArrayToSet({"C", "d"}))
    /\ started = TRUE
    /\ operations = [k \in Keys |-> NotActivated]
    /\ initPc = "done"
    /\ startPc = "done"
    /\ startResults = <<>>
    /\ unexpectedErrors = {}
    /\ rounds = [readyToRunOpened |-> 1, eagerRuns |-> 1, eagerOpened |-> 1]
    /\ activationErrors = {}
    /\ earlyOrigins = {}
    /\ observed = [k \in Keys |-> {}]
    /\ eager = [NoEager EXCEPT !.startupFinished = TRUE, !.fanOuts = 1]
    /\ requests = [r \in 1 .. MaxRequests |-> NoRequest]
    /\ deltaCalls = <<>>
    /\ NotTerminating

NextLoading ==
    \/ \E k \in Keys : WillActivateSettles(k)
    \/ \E k \in Keys, part \in LoadParts, ok \in BOOLEAN : LoadPartSettles(k, part, ok)
    \/ \E k \in Keys, o \in LoadOutcomes : CallActivate(k, o)
    \/ \E k \in Keys, ok \in BOOLEAN : ActivateSettles(k, ok)
    \/ \E r \in Requests, e \in RequestEvents, i \in BOOLEAN :
           RpcActivateByEventCall(r, e, i)
    \/ \E r \in Requests : RpcActivateByEventResume(r)
    \/ \E r \in Requests, id \in OverlapIds : RpcActivateCall(r, id)
    \/ \E r \in Requests : RpcActivateResume(r)
    \/ \E r \in Requests : RequestSettles(r)

SpecLoading == LoadingInit /\ [][NextLoading]_vars

(***************************************************************************)
(* Queries for exports while the host starts.                              *)
(***************************************************************************)
\* how many calls there are
MaxQueries == 2

\* The state of EagerInit with the extensions of Init and no folder.
QueryInit ==
    /\ initData = [autoStart |-> TRUE, isRemote |-> FALSE, hostExtensions |-> {}]
    /\ almostReadyToRunExtensions = TRUE
    /\ readyToStartExtensionHost = TRUE
    /\ readyToRunExtensions = FALSE
    /\ eagerExtensionsActivated = FALSE
    /\ globalRegistry = {ExtA, ExtC}
    /\ myRegistry = FilterExtensions({ExtA, ExtC},
                        ExtensionIdentifiersArrayToSet({"a", "C"}))
    /\ started = TRUE
    /\ operations = [k \in Keys |-> NotActivated]
    /\ initPc = "done"
    /\ startPc = "waitReadyToStart"
    /\ startResults = <<>>
    /\ unexpectedErrors = {}
    /\ rounds = [readyToRunOpened |-> 0, eagerRuns |-> 0, eagerOpened |-> 0]
    /\ activationErrors = {}
    /\ earlyOrigins = {}
    /\ observed = [k \in Keys |-> {}]
    /\ eager = NoEager
    /\ requests = [r \in 1 .. MaxQueries |-> NoRequest]
    /\ deltaCalls = <<>>
    /\ NotTerminating

NextQuery ==
    \/ StartOpenReadyToRun
    \/ StartHandleEager
    \/ StartEagerDone
    \/ StartupTimerFires
    \/ ActivateAllStartupFinished
    \/ \E k \in Keys : WillActivateSettles(k)
    \/ \E k \in Keys, o \in LoadOutcomes : LoadSettles(k, o)
    \/ \E k \in Keys, ok \in BOOLEAN : ActivateSettles(k, ok)
    \/ \E r \in Requests, e \in RequestEvents, i \in BOOLEAN :
           RpcActivateByEventCall(r, e, i)
    \/ \E r \in Requests : RpcActivateByEventResume(r)
    \/ \E r \in Requests : RequestSettles(r)
    \/ \E r \in Requests, id \in RequestIds : GetExtensionExportsCall(r, id)

SpecQuery == QueryInit /\ [][NextQuery]_vars

(***************************************************************************)
(* Requests issued before the host is started.                             *)
(***************************************************************************)
\* how many calls there are
MaxQueued == 2

\* The state of Init when initialize waits for the workspace: the host
\* starts by itself once the workspace is initialized, and not at all when
\* that fails.
QueuedInit ==
    /\ Constructed({ExtA, ExtC}, {"a", "C"}, TRUE, FALSE)
    /\ Quiet
    /\ requests = [r \in 1 .. MaxQueued |-> NoRequest]
    /\ deltaCalls = <<>>

\* the steps that are taken when they can be: continuations run, the timer
\* fires and what an activation waits for settles
QueuedProgress ==
    \/ InitializeCall
    \/ \E ok \in BOOLEAN : InitializeSetupSettles(ok)
    \/ StartOpenReadyToRun
    \/ StartHandleEager
    \/ StartEagerDone
    \/ StartupTimerFires
    \/ ActivateAllStartupFinished
    \/ \E k \in Keys : WillActivateSettles(k)
    \/ \E k \in Keys, o \in LoadOutcomes : LoadSettles(k, o)
    \/ \E k \in Keys, ok \in BOOLEAN : ActivateSettles(k, ok)
    \/ \E r \in Requests : RpcActivateResume(r)
    \/ \E r \in Requests : RpcActivateByEventResume(r)
    \/ \E r \in Requests : RequestSettles(r)

\* the workspace is initialized at some time, fails to, or never answers;
\* the calls come when the renderer makes them
NextQueued ==
    \/ QueuedProgress
    \/ \E ok \in BOOLEAN : InitializeWorkspaceSettles(ok)
    \/ \E r \in Requests, id \in RequestIds : RpcActivateCall(r, id)
    \/ \E r \in Requests, e \in RequestEvents, i \in BOOLEAN :
           RpcActivateByEventCall(r, e, i)

SpecQueued == QueuedInit /\ [][NextQueued]_vars /\ WF_vars(QueuedProgress)

(***************************************************************************)
(* $startExtensionHost on a host that starts by itself.                    *)
(***************************************************************************)
\* the deltas of the start: "E" is added to both registries, or "C" leaves
\* both
RestartDeltas == {Delta({ExtE}, {}, {"e"}, {}), Delta({}, {"C"}, {}, {"c"})}

\* The state of Init with autoStart: initialize starts the host, and
\* $startExtensionHost is called before or after that.
RestartInit ==
    /\ Constructed({ExtA, ExtC}, {"a", "C"}, TRUE, FALSE)
    /\ Quiet
    /\ requests = [r \in 1 .. MaxRequests |-> NoRequest]
    /\ deltaCalls = <<>>

NextRestart ==
    \/ InitializeCall
    \/ \E ok \in BOOLEAN : InitializeSetupSettles(ok)
    \/ \E ok \in BOOLEAN : InitializeWorkspaceSettles(ok)
    \/ /\ Len(startResults) < MaxStartCalls
       /\ \E d \in RestartDeltas : RpcStartExtensionHost(d)
    \/ StartOpenReadyToRun
    \/ StartHandleEager
    \/ StartEagerDone
    \/ StartupTimerFires
    \/ ActivateAllStartupFinished
    \/ \E k \in Keys : DependenciesSettled(k)
    \/ \E k \in Keys : WillActivateSettles(k)
    \/ \E k \in Keys, o \in LoadOutcomes : LoadSettles(k, o)
    \/ \E k \in Keys, ok \in BOOLEAN : ActivateSettles(k, ok)
    \/ \E r \in Requests, id \in RequestIds : RpcActivateCall(r, id)
    \/ \E r \in Requests : RpcActivateResume(r)
    \/ \E r \in Requests : RequestSettles(r)

SpecRestart == RestartInit /\ [][NextRestart]_vars

(***************************************************************************)
(* The registries: $startExtensionHost and overlapping $deltaExtensions.   *)
(***************************************************************************)
NoDelta == Delta({}, {}, {}, {})

NoPair == [globalRegistry |-> {}, myExtensions |-> {}]

NoDeltaCall == [pc |-> "idle", delta |-> NoDelta, new |-> NoPair]

DeltaCalls == DOMAIN deltaCalls

\* "D" comes and "C" goes, in both registries
SwapDelta == Delta({ExtD}, {"C"}, {"D"}, {"c"})

\* the deltas the main thread sends: the swap; "E" is added to both
\* registries; "A" leaves the global registry; "A" leaves the owned set and
\* "b", which no registry knows, joins it
RegistryDeltas ==
    {SwapDelta,
     Delta({ExtE}, {}, {"e"}, {}),
     Delta({}, {"A"}, {}, {}),
     Delta({}, {}, {"b"}, {"A"})}

RegistryInit ==
    /\ Constructed({ExtA, ExtC}, {"a", "C"}, FALSE, FALSE)
    /\ Quiet
    /\ requests = <<>>
    /\ deltaCalls = [s \in 1 .. MaxDeltaCalls |-> NoDeltaCall]

DeltaUnchanged ==
    UNCHANGED <<initData, shutdownVars, barrierVars, startVars, ledgerVars,
                requestVars, eager>>

\* mutant: the new pair is installed as soon as it is computed
RpcDeltaExtensionsCall_InPlace(s, extensionsDelta) ==
    /\ deltaCalls[s].pc = "idle"
    /\ \A t \in DeltaCalls : t < s => deltaCalls[t].pc # "idle"
    /\ deltaCalls' = [deltaCalls EXCEPT ![s] =
           [pc |-> "createIndex", delta |-> extensionsDelta,
            new |-> ApplyExtensionsDelta(globalRegistry, myRegistry,
                                         extensionsDelta)]]
    /\ InstallRegistries(ApplyExtensionsDelta(globalRegistry, myRegistry,
                                              extensionsDelta))
    /\ DeltaUnchanged

\* $deltaExtensions: the new pair is computed from the current one, then
\* the call waits for _createExtensionPathIndex
RpcDeltaExtensionsCall(s, extensionsDelta) ==
    /\ deltaCalls[s].pc = "idle"
    /\ \A t \in DeltaCalls : t < s => deltaCalls[t].pc # "idle"
    /\ deltaCalls' = [deltaCalls EXCEPT ![s] =
           [pc |-> "createIndex", delta |-> extensionsDelta,
            new |-> ApplyExtensionsDelta(globalRegistry, myRegistry,
                                         extensionsDelta)]]
    /\ UNCHANGED registryVars
    /\ DeltaUnchanged

\* the new search tree is built: the call waits for getExtensionPathIndex
DeltaPathIndexCreated(s) ==
    /\ deltaCalls[s].pc = "createIndex"
    /\ deltaCalls' = [deltaCalls EXCEPT ![s].pc = "getIndex"]
    /\ UNCHANGED registryVars
    /\ DeltaUnchanged

\* one of the two awaited promises rejects (a real path cannot be resolved):
\* the call rejects and installs nothing
DeltaPathIndexRejects(s) ==
    /\ deltaCalls[s].pc \in {"createIndex", "getIndex"}
    /\ deltaCalls' = [deltaCalls EXCEPT ![s].pc = "rejected", ![s].new = NoPair]
    /\ UNCHANGED registryVars
    /\ DeltaUnchanged

\* the path index is there: the search tree is set and both registries are
\* replaced by the pair computed at the call
DeltaInstall(s) ==
    /\ deltaCalls[s].pc = "getIndex"
    /\ InstallRegistries(deltaCalls[s].new)
    /\ deltaCalls' = [deltaCalls EXCEPT ![s].pc = "done", ![s].new = NoPair]
    /\ DeltaUnchanged

NextRegistry ==
    \/ /\ Len(startResults) < MaxStartCalls
       /\ \E d \in RegistryDeltas : RpcStartExtensionHost(d)
    \/ \E s \in DeltaCalls, d \in RegistryDeltas : RpcDeltaExtensionsCall(s, d)
    \/ \E s \in DeltaCalls : DeltaPathIndexCreated(s)
    \/ \E s \in DeltaCalls : DeltaPathIndexRejects(s)
    \/ \E s \in DeltaCalls : DeltaInstall(s)

SpecRegistry == RegistryInit /\ [][NextRegistry]_vars

(***************************************************************************)
(* _applyExtensionsDelta on every pair of registries.                      *)
(***************************************************************************)
\* the descriptions the registries are made of
DeltaUniverse == {ExtA, ExtC, ExtD}

\* the deltas of one call: what is added, removed, owned and disowned, in
\* either case of the letters
DeltaInputs ==
    {Delta(toAdd, toRemove, myToAdd, myToRemove) :
        toAdd \in SUBSET {ExtA, ExtD}, toRemove \in SUBSET {"A", "c"},
        myToAdd \in SUBSET {"a", "D"}, myToRemove \in SUBSET {"A", "d"}}

\* the constructor is given any of the descriptions and owns any of those
DeltaInit ==
    /\ \E allExtensions \in SUBSET DeltaUniverse :
           \E myExtensions \in SUBSET {d.identifier : d \in allExtensions} :
               Constructed(allExtensions, myExtensions, FALSE, FALSE)
    /\ Quiet
    /\ requests = <<>>
    /\ deltaCalls = <<NoDeltaCall>>

NextDelta ==
    \/ \E s \in DeltaCalls, d \in DeltaInputs : RpcDeltaExtensionsCall(s, d)
    \/ \E s \in DeltaCalls : DeltaPathIndexCreated(s)
    \/ \E s \in DeltaCalls : DeltaInstall(s)

SpecDelta == DeltaInit /\ [][NextDelta]_vars

(***************************************************************************)
(* Shutdown: terminate, _deactivateAll, _deactivate.                       *)
(***************************************************************************)
\* what the module's deactivate does when called: the module has none, it
\* throws, or it returns (a value or a promise that settles later, or never)
HookBehaviours == {"noHook", "throws", "returns"}

\* what dispose(extension.subscriptions) does
DisposeOutcomes == {"released", "throws"}

ExitCodes == {0, 1}

\* mutant: what the hook throws is not caught, and leaves _deactivate
Deactivate_NoCatch(key, behaviour, disposal) ==
    LET rec == deactivations[key]
    IN  IF ~readyToRunExtensions \/ ~ActivatorIsActivated(operations, key)
        THEN rec
        ELSE IF behaviour = "throws"
        THEN [rec EXCEPT !.hook = "threw", !.hookCalls = @ + 1]
        ELSE [hook |-> IF behaviour = "noHook" THEN "noHook" ELSE "pending",
              hookCalls |-> rec.hookCalls + (IF behaviour = "noHook" THEN 0 ELSE 1),
              disposeCalls |-> rec.disposeCalls + 1,
              logged |-> rec.logged \cup
                            (IF disposal = "throws" THEN {"dispose"} ELSE {})]

\* mutant: the subscriptions are disposed when what the hook returned settles
Deactivate_DisposeAfterHook(key, behaviour, disposal) ==
    LET rec == deactivations[key]
    IN  IF ~readyToRunExtensions \/ ~ActivatorIsActivated(operations, key)
        THEN rec
        ELSE [hook |-> CASE behaviour = "noHook" -> "noHook"
                         [] behaviour = "throws" -> "threw"
                         [] OTHER -> "pending",
              hookCalls |-> rec.hookCalls + (IF behaviour = "noHook" THEN 0 ELSE 1),
              disposeCalls |-> rec.disposeCalls
                                  + (IF behaviour = "returns" THEN 0 ELSE 1),
              logged |-> rec.logged
                            \cup (IF behaviour = "throws" THEN {"hook"} ELSE {})
                            \cup (IF disposal = "throws" THEN {"dispose"} ELSE {})]

\* _deactivate: deactivate is called if the module has one, what it throws
\* is logged; then the subscriptions are disposed, what that throws is logged
Deactivate(key, behaviour, disposal) ==
    LET rec == deactivations[key]
    IN  IF ~readyToRunExtensions \/ ~ActivatorIsActivated(operations, key)
        THEN rec
        ELSE [hook |-> CASE behaviour = "noHook" -> "noHook"
                         [] behaviour = "throws" -> "threw"
                         [] OTHER -> "pending",
              hookCalls |-> rec.hookCalls + (IF behaviour = "noHook" THEN 0 ELSE 1),
              disposeCalls |-> rec.disposeCalls + 1,
              logged |-> rec.logged
                            \cup (IF behaviour = "throws" THEN {"hook"} ELSE {})
                            \cup (IF disposal = "throws" THEN {"dispose"} ELSE {})]

\* the promise _deactivate returns: a rejection of the hook is logged and
\* the promise resolves
DeactivateResult(rec) ==
    IF rec.hook = "pending" THEN "pending" ELSE "resolved"

\* mutant: _deactivateAll asks the activator alone
ActivatedExtensions_AllRecords ==
    {k \in Keys : IsActivated(k)}

\* _deactivateAll, the owned extensions that isActivated reports
ActivatedExtensions ==
    {ToKey(d.identifier) : d \in {e \in myRegistry : IsActivated(e.identifier)}}

\* mutant: the exit waits for the extensions alone
RaceSettledBy_DeactivatedOnly(source) == source = "extensionsDeactivated"

\* mutant: the exit waits for the timer alone
RaceSettledBy_TimeoutOnly(source) == source = "timeout"

\* Promise.race([timeout(5000), extensionsDeactivated])
RaceSettledBy(source) == source \in {"timeout", "extensionsDeactivated"}

\* the finally callback of the race: it runs when the race settles first
ExitWhenRaceSettles(source) ==
    IF RaceSettledBy(source) /\ exits = <<>>
    THEN exits' = Append(exits, shutdownTimer.code)
    ELSE UNCHANGED exits

ShutdownUnchanged ==
    UNCHANGED <<initData, deltaCalls, barrierVars, registryVars, startVars,
                ledgerVars, requestVars, eager>>

\* mutant: every call of terminate runs the whole of it
Terminate_NoGuard(code) ==
    /\ terminateCalls' = terminateCalls + 1
    /\ isTerminating' = TRUE
    /\ \E behaviour \in [ActivatedExtensions -> HookBehaviours],
          disposal \in [ActivatedExtensions -> DisposeOutcomes] :
           deactivations' =
               [k \in Keys |->
                   IF k \in ActivatedExtensions
                   THEN Deactivate(k, behaviour[k], disposal[k])
                   ELSE deactivations[k]]
    /\ extensionsDeactivated' =
           [state |-> "pending", activatedExtensions |-> ActivatedExtensions]
    /\ shutdownTimer' = [state |-> "armed", clock |-> 0, code |-> code]
    /\ UNCHANGED exits
    /\ ShutdownUnchanged

\* terminate(reason, code): a second call returns at once; the first one
\* runs _deactivateAll up to its await and arms the timer
Terminate(code) ==
    /\ terminateCalls' = terminateCalls + 1
    /\ IF isTerminating
       THEN UNCHANGED <<isTerminating, deactivations, extensionsDeactivated,
                        shutdownTimer, exits>>
       ELSE /\ isTerminating' = TRUE
            /\ \E behaviour \in [ActivatedExtensions -> HookBehaviours],
                  disposal \in [ActivatedExtensions -> DisposeOutcomes] :
                   deactivations' =
                       [k \in Keys |->
                           IF k \in ActivatedExtensions
                           THEN Deactivate(k, behaviour[k], disposal[k])
                           ELSE deactivations[k]]
            /\ extensionsDeactivated' =
                   [state |-> "pending", activatedExtensions |-> ActivatedExtensions]
            /\ shutdownTimer' = [state |-> "armed", clock |-> 0, code |-> code]
            /\ UNCHANGED exits
    /\ ShutdownUnchanged

\* the promise a deactivate has returned settles
HookSettles(key, ok) ==
    /\ deactivations[key].hook = "pending"
    /\ deactivations' = [deactivations EXCEPT ![key].hook =
                             IF ok THEN "resolved" ELSE "rejected",
                         ![key].logged =
                             IF ok THEN @ ELSE @ \cup {"hook"}]
    /\ UNCHANGED <<isTerminating, terminateCalls, extensionsDeactivated,
                   shutdownTimer, exits>>
    /\ ShutdownUnchanged

\* Promise.all of the promises of _deactivate settles, and with it
\* _deactivateAll and, if the timer has not fired, the race
ExtensionsDeactivated ==
    /\ extensionsDeactivated.state = "pending"
    /\ LET results == {DeactivateResult(deactivations[k]) :
                          k \in extensionsDeactivated.activatedExtensions}
       IN  /\ "pending" \notin results
           /\ extensionsDeactivated' =
                  [extensionsDeactivated EXCEPT !.state =
                      IF "rejected" \in results THEN "rejected" ELSE "resolved"]
    /\ ExitWhenRaceSettles("extensionsDeactivated")
    /\ UNCHANGED <<isTerminating, terminateCalls, deactivations, shutdownTimer>>
    /\ ShutdownUnchanged

\* a second passes
ShutdownTimerTick ==
    /\ shutdownTimer.state = "armed"
    /\ shutdownTimer.clock < ShutdownTimeout
    /\ shutdownTimer' = [shutdownTimer EXCEPT !.clock = @ + 1]
    /\ UNCHANGED <<isTerminating, terminateCalls, deactivations,
                   extensionsDeactivated, exits>>
    /\ ShutdownUnchanged

\* timeout(5000) resolves, and with it the race if it has not settled
ShutdownTimerFires ==
    /\ shutdownTimer.state = "armed"
    /\ shutdownTimer.clock = ShutdownTimeout
    /\ shutdownTimer' = [shutdownTimer EXCEPT !.state = "fired"]
    /\ ExitWhenRaceSettles("timeout")
    /\ UNCHANGED <<isTerminating, terminateCalls, deactivations,
                   extensionsDeactivated>>
    /\ ShutdownUnchanged

\* the record of an extension that is activated, or whose activate is
\* still running
OperationOf(desc, state) ==
    LET key == ToKey(desc.identifier)
        running == [NotActivated EXCEPT !.state = "Activating",
                       !.phase = "activate", !.run = 1, !.desc = desc]
    IN  IF state = "Activated" THEN ActivatedOp(running, <<key, 1>>) ELSE running

\* The states terminate finds: "c" and "d" are activated, "e" is activated
\* or still activating, "a" was never requested; the host has started, or
\* it has not and the three were activated by requests that do not wait
\* for ReadyToRunExtensions.
ShutdownInit ==
    /\ initData = [autoStart |-> FALSE, isRemote |-> FALSE, hostExtensions |-> {}]
    /\ almostReadyToRunExtensions = TRUE
    /\ readyToStartExtensionHost = TRUE
    /\ readyToRunExtensions \in BOOLEAN
    /\ eagerExtensionsActivated = readyToRunExtensions
    /\ globalRegistry = {ExtA, ExtC, ExtD, ExtE}
    /\ myRegistry = FilterExtensions({ExtA, ExtC, ExtD, ExtE},
                        ExtensionIdentifiersArrayToSet({"a", "C", "d", "E"}))
    /\ started = readyToRunExtensions
    /\ \E eState \in {"Activated", "Activating"} :
           operations = [k \in Keys |->
               CASE k = "c" -> OperationOf(ExtC, "Activated")
                 [] k = "d" -> OperationOf(ExtD, "Activated")
                 [] k = "e" -> OperationOf(ExtE, eState)
                 [] OTHER -> NotActivated]
    /\ initPc = "done"
    /\ startPc = IF readyToRunExtensions THEN "done" ELSE "none"
    /\ startResults = IF readyToRunExtensions THEN <<"started">> ELSE <<>>
    /\ unexpectedErrors = {}
    /\ rounds = IF readyToRunExtensions
                THEN [readyToRunOpened |-> 1, eagerRuns |-> 1, eagerOpened |-> 1]
                ELSE [readyToRunOpened |-> 0, eagerRuns |-> 0, eagerOpened |-> 0]
    /\ activationErrors = {}
    /\ earlyOrigins = {}
    /\ observed = [k \in Keys |-> {}]
    /\ eager = [NoEager EXCEPT !.startupFinished = readyToRunExtensions,
                             !.fanOuts = IF readyToRunExtensions THEN 1 ELSE 0]
    /\ requests = <<>>
    /\ deltaCalls = <<>>
    /\ NotTerminating

NextShutdown ==
    \/ /\ terminateCalls < MaxTerminateCalls
       /\ \E code \in ExitCodes : Terminate(code)
    \/ \E k \in Keys, ok \in BOOLEAN : HookSettles(k, ok)
    \/ ExtensionsDeactivated
    \/ ShutdownTimerTick
    \/ ShutdownTimerFires
    \/ \E k \in Keys, ok \in BOOLEAN : ActivateSettles(k, ok)

\* the event loop runs the timers and the promise callbacks that are due;
\* nothing makes a deactivate hook settle
SpecShutdown ==
    /\ ShutdownInit
    /\ [][NextShutdown]_vars
    /\ WF_vars(ShutdownTimerTick)
    /\ WF_vars(ShutdownTimerFires)
    /\ WF_vars(ExtensionsDeactivated)

(***************************************************************************)
(* Queries and terminate around the opening of ReadyToRunExtensions.       *)
(***************************************************************************)
\* the identifiers the queries name: "C" is activated, "a" is not
GateIds == {"a", "C"}

\* The host is started and waits to open ReadyToRunExtensions; requests
\* that do not wait for it have activated "c" and have "e" in its activate;
\* "a" was never requested.
GateInit ==
    /\ initData = [autoStart |-> FALSE, isRemote |-> FALSE, hostExtensions |-> {}]
    /\ almostReadyToRunExtensions = TRUE
    /\ readyToStartExtensionHost = TRUE
    /\ readyToRunExtensions = FALSE
    /\ eagerExtensionsActivated = FALSE
    /\ globalRegistry = {ExtA, ExtC, ExtE}
    /\ myRegistry = FilterExtensions({ExtA, ExtC, ExtE},
                        ExtensionIdentifiersArrayToSet({"a", "C", "E"}))
    /\ started = TRUE
    /\ operations = [k \in Keys |->
           CASE k = "c" -> OperationOf(ExtC, "Activated")
             [] k = "e" -> OperationOf(ExtE, "Activating")
             [] OTHER -> NotActivated]
    /\ initPc = "done"
    /\ startPc = "waitReadyToStart"
    /\ startResults = <<"started">>
    /\ unexpectedErrors = {}
    /\ rounds = [readyToRunOpened |-> 0, eagerRuns |-> 0, eagerOpened |-> 0]
    /\ activationErrors = {}
    /\ earlyOrigins = {}
    /\ observed = [k \in Keys |-> {}]
    /\ eager = NoEager
    /\ requests = [r \in 1 .. MaxQueries |-> NoRequest]
    /\ deltaCalls = <<>>
    /\ NotTerminating

\* terminate is called once, with the default code
NextGate ==
    \/ StartOpenReadyToRun
    \/ terminateCalls = 0 /\ Terminate(0)
    \/ \E k \in Keys, ok \in BOOLEAN : HookSettles(k, ok)
    \/ ExtensionsDeactivated
    \/ ShutdownTimerTick
    \/ ShutdownTimerFires
    \/ \E k \in Keys, ok \in BOOLEAN : ActivateSettles(k, ok)
    \/ \E r \in Requests, id \in GateIds : IsActiveCall(r, id)
    \/ \E r \in Requests, id \in GateIds : GetExtensionExportsCall(r, id)

SpecGate == GateInit /\ [][NextGate]_vars

(***************************************************************************)
(* Shutdown of a host whose registries change.                             *)
(***************************************************************************)
\* the deltas before and during the shutdown: "d" is disowned, "c" removed
SnapshotDeltas == {Delta({}, {}, {}, {"D"}), Delta({}, {"C"}, {}, {"c"})}

\* The started host of ShutdownInit: "c" and "d" are activated, "e" is
\* activated or still activating.
SnapshotInit ==
    /\ initData = [autoStart |-> FALSE, isRemote |-> FALSE, hostExtensions |-> {}]
    /\ almostReadyToRunExtensions = TRUE
    /\ readyToStartExtensionHost = TRUE
    /\ readyToRunExtensions = TRUE
    /\ eagerExtensionsActivated = TRUE
    /\ globalRegistry = {ExtA, ExtC, ExtD, ExtE}
    /\ myRegistry = FilterExtensions({ExtA, ExtC, ExtD, ExtE},
                        ExtensionIdentifiersArrayToSet({"a", "C", "d", "E"}))
    /\ started = TRUE
    /\ \E eState \in {"Activated", "Activating"} :
           operations = [k \in Keys |->
               CASE k = "c" -> OperationOf(ExtC, "Activated")
                 [] k = "d" -> OperationOf(ExtD, "Activated")
                 [] k = "e" -> OperationOf(ExtE, eState)
                 [] OTHER -> NotActivated]
    /\ initPc = "done"
    /\ startPc = "done"
    /\ startResults = <<"started">>
    /\ unexpectedErrors = {}
    /\ rounds = [readyToRunOpened |-> 1, eagerRuns |-> 1, eagerOpened |-> 1]
    /\ activationErrors = {}
    /\ earlyOrigins = {}
    /\ observed = [k \in Keys |-> {}]
    /\ eager = [NoEager EXCEPT !.startupFinished = TRUE, !.fanOuts = 1]
    /\ requests = <<>>
    /\ deltaCalls = <<NoDeltaCall>>
    /\ NotTerminating

NextSnapshot ==
    \/ \E s \in DeltaCalls, d \in SnapshotDeltas : RpcDeltaExtensionsCall(s, d)
    \/ \E s \in DeltaCalls : DeltaPathIndexCreated(s)
    \/ \E s \in DeltaCalls : DeltaInstall(s)
    \/ /\ terminateCalls < MaxTerminateCalls
       /\ \E code \in ExitCodes : Terminate(code)
    \/ \E k \in Keys, ok \in BOOLEAN : HookSettles(k, ok)
    \/ ExtensionsDeactivated
    \/ ShutdownTimerTick
    \/ ShutdownTimerFires
    \/ \E k \in Keys, ok \in BOOLEAN : ActivateSettles(k, ok)

SpecSnapshot == SnapshotInit /\ [][NextSnapshot]_vars

(***************************************************************************)
(* Properties.                                                             *)
(***************************************************************************)
JoinedOn(k) == {r \in Requests : requests[r].pc = "joined" /\ requests[r].wait = {k}}

C2_NoActivationBeforeReady == earlyOrigins = {}

\* C2, amended: only $activateByEvent of the Immediate kind, the resolution
\* of a remote authority and activateByIdWithErrors have the actual
\* activation procedure invoked while ReadyToRunExtensions is closed;
\* $activate and $activateByEvent of any other kind never do.
C2_OnlyUngatedBeforeReady ==
    earlyOrigins \subseteq
        {"$activateByEvent:Immediate", "resolveAuthority", "activateByIdWithErrors"}

\* a request of $activate has been forwarded and the procedure invoked
C2_Witness ==
    \E r \in Requests :
        /\ requests[r].kind = "$activate"
        /\ requests[r].pc = "joined"
        /\ operations[ToKey(requests[r].arg)].run = 1
        /\ readyToRunExtensions

LatchPrefix ==
    /\ readyToStartExtensionHost => almostReadyToRunExtensions
    /\ readyToRunExtensions => readyToStartExtensionHost
    /\ eagerExtensionsActivated => readyToRunExtensions

LatchesStayOpen ==
    /\ almostReadyToRunExtensions => almostReadyToRunExtensions'
    /\ readyToStartExtensionHost => readyToStartExtensionHost'
    /\ readyToRunExtensions => readyToRunExtensions'
    /\ eagerExtensionsActivated => eagerExtensionsActivated'

\* C3: the open latches are always a prefix of the chain
\* AlmostReadyToRunExtensions, ReadyToStartHost, ReadyToRunExtensions,
\* EagerExtensionsActivated, and no step closes an open latch.
C3_LatchChain == []LatchPrefix /\ [][LatchesStayOpen]_vars

\* the four latches are open
C3_Witness ==
    /\ almostReadyToRunExtensions /\ readyToStartExtensionHost
    /\ readyToRunExtensions /\ eagerExtensionsActivated

\* the calls of _startExtensionHost so far, and those that have thrown
StartAttempts ==
    Len(startResults) + (IF initPc = "done" /\ initData.autoStart THEN 1 ELSE 0)

AlreadyStartedFailures ==
    Cardinality({i \in DOMAIN startResults : startResults[i] = "AlreadyStarted"})
        + (IF "AlreadyStarted" \in unexpectedErrors THEN 1 ELSE 0)

\* C4: of the start requests made so far, every one but the first has
\* failed with the already-started error (thrown to the caller of
\* $startExtensionHost, handed to onUnexpectedError by initialize), and
\* ReadyToRunExtensions was opened, the eager activation run and
\* EagerExtensionsActivated opened at most once.
C4_SecondStartFails ==
    /\ StartAttempts >= 1 =>
          /\ started
          /\ AlreadyStartedFailures = StartAttempts - 1
    /\ rounds.readyToRunOpened <= 1
    /\ rounds.eagerRuns <= 1
    /\ rounds.eagerOpened <= 1

\* a start request has failed and the one round has run to its end
C4_Witness ==
    /\ AlreadyStartedFailures >= 1
    /\ rounds.eagerOpened = 1

\* the step that hands the batch for "onCommand:x" (declared by "a", which
\* depends on the unknown "b", and by "c") to the activator
BatchForwarded(r) ==
    /\ requests[r].pc # "joined"
    /\ requests'[r].pc = "joined"
    /\ requests'[r].arg = "onCommand:x"

BatchStep ==
    \A r \in Requests : BatchForwarded(r) =>
        /\ operations'["a"].state = "ActivationFailed"
        /\ operations'["a"].error = "MissingExtensionDependency"
        /\ operations'["a"].missing = "b"
        /\ [id |-> "a", error |-> "MissingExtensionDependency", missing |-> "b"]
               \in activationErrors'
        /\ IF operations["c"].state = "NotActivated"
           THEN operations'["c"].state = "Activating" /\ operations'["c"].run = 1
           ELSE operations'["c"] = operations["c"]
        /\ \A k \in Keys \ {"a", "c"} : operations'[k] = operations[k]

BatchDone ==
    \E r \in Requests :
        /\ requests[r].pc = "done"
        /\ requests[r].kind \in {"$activateByEvent:Immediate", "$activateByEvent:Normal"}

BatchSettled ==
    /\ operations["a"].run = 0
    /\ BatchDone =>
          /\ operations["a"].state = "ActivationFailed"
          /\ operations["a"].missing = "b"
          /\ operations["c"].run = 1
          /\ \/ operations["c"].state = "Activated"
             \/ /\ operations["c"].state = "ActivationFailed"
                /\ operations["c"].error \in {"LoadError", "ActivateError"}

\* C7: the batch leaves "a" failed with a MissingExtensionDependency naming
\* "b", reported through onExtensionActivationError, without the activation
\* procedure of "a" ever being run; it starts the activation of "c", which
\* ends activated unless its own load or activate fails; and it changes the
\* record of no other extension.
C7_DependencyIsolation == []BatchSettled /\ [][BatchStep]_vars

\* the batch has settled: "a" has failed and "c" is activated
C7_Witness ==
    /\ BatchDone
    /\ operations["a"].state = "ActivationFailed"
    /\ operations["c"].state = "Activated"

\* C8: the actual activation procedure of an extension (hence its module
\* load and its activate call) has only been invoked when the activation of
\* each of its dependencies has settled.
C8_DependenciesFirst ==
    \A k \in Keys :
        operations[k].run > 0 /\ operations[k].desc # NoDesc =>
            \A d \in operations[k].desc.extensionDependencies :
                Settled(operations[ToKey(d)])

\* "e" is being activated, and "c", which it depends on, has settled
C8_Witness ==
    /\ operations["e"].state = "Activating"
    /\ operations["e"].phase \in {"willActivate", "load", "activate"}
    /\ Settled(operations["c"])

\* C5: every identifier of the owned registry is, compared by key, an
\* identifier of the global registry.
C5_OwnedInGlobal ==
    \A d \in myRegistry : HasExtension(globalRegistry, d.identifier)

\* two overlapping $deltaExtensions calls have installed their pairs after
\* the start has installed its own, and the registries are not the
\* constructed ones
C5_Witness ==
    /\ startResults # <<>>
    /\ \A s \in DeltaCalls : deltaCalls[s].pc = "done"
    /\ \E s, t \in DeltaCalls : deltaCalls[s].delta # deltaCalls[t].delta
    /\ <<globalRegistry, myRegistry>> # <<{ExtA, ExtC}, {ExtA, ExtC}>>

\* a step that changes a registry installs, whole, the pair a suspended
\* $deltaExtensions call has computed or the pair $startExtensionHost
\* computes from the current pair
PairInstalledWhole ==
    <<globalRegistry, myRegistry>>' # <<globalRegistry, myRegistry>> =>
        \/ \E s \in DeltaCalls :
              /\ deltaCalls[s].pc = "getIndex"
              /\ deltaCalls'[s].pc = "done"
              /\ globalRegistry' = deltaCalls[s].new.globalRegistry
              /\ myRegistry' = deltaCalls[s].new.myExtensions
        \/ \E d \in RegistryDeltas :
              /\ Len(startResults') = Len(startResults) + 1
              /\ LET new == ApplyExtensionsDelta(globalRegistry, myRegistry, d)
                 IN  /\ globalRegistry' = new.globalRegistry
                     /\ myRegistry' = new.myExtensions

\* of "c", which the swap removes, and "d", which it adds, every state
\* holds exactly one, and each registry holds the same one
SwapSeenWhole ==
    /\ HasExtension(globalRegistry, "c") # HasExtension(globalRegistry, "d")
    /\ HasExtension(myRegistry, "c") = HasExtension(globalRegistry, "c")
    /\ HasExtension(myRegistry, "d") = HasExtension(globalRegistry, "d")

\* C6: the two registries only change together, in one step, to the
\* complete pair of one call, so that whatever runs at a suspension point
\* of a $deltaExtensions or $startExtensionHost call sees a complete pair;
\* of the X a delta adds and the Y it removes, every state shows exactly one.
C6_DeltaAtomicity == []SwapSeenWhole /\ [][PairInstalledWhole]_vars

\* the swap of one call is installed while another call is suspended
C6_Witness ==
    \E s, t \in DeltaCalls :
        /\ deltaCalls[s].pc = "done"
        /\ deltaCalls[s].delta = SwapDelta
        /\ deltaCalls[t].pc \in {"createIndex", "getIndex"}
        /\ HasExtension(globalRegistry, "d")
        /\ HasExtension(myRegistry, "d")

DeactivatedSet == extensionsDeactivated.activatedExtensions

ContainedSafely ==
    extensionsDeactivated.state # "idle" =>
        /\ \A k \in DeactivatedSet :
              /\ deactivations[k].disposeCalls = 1
              /\ deactivations[k].hook # "-"
              /\ deactivations[k].hook # "noHook" => deactivations[k].hookCalls = 1
        /\ extensionsDeactivated.state # "rejected"

HooksSettled ==
    /\ extensionsDeactivated.state # "idle"
    /\ \A k \in DeactivatedSet : deactivations[k].hook # "pending"

\* C9: once _deactivateAll has run, every extension it found activated has
\* had its disposables released once and its shutdown hook, if it has one,
\* invoked once, whichever hooks have thrown or rejected; _deactivateAll
\* never rejects, and it resolves once every invoked hook has settled.
C9_DeactivationContainment ==
    []ContainedSafely /\ (HooksSettled ~> extensionsDeactivated.state = "resolved")

\* of three extensions one hook has thrown and another has rejected; all
\* three are disposed of, and _deactivateAll has resolved
C9_Witness ==
    /\ extensionsDeactivated.state = "resolved"
    /\ Cardinality(DeactivatedSet) = 3
    /\ \E j, k \in DeactivatedSet :
          /\ deactivations[j].hook = "threw"
          /\ deactivations[k].hook = "rejected"
    /\ \A k \in DeactivatedSet : deactivations[k].disposeCalls = 1

ShutdownSafe ==
    /\ shutdownTimer.state = "fired" => exits # <<>>
    /\ \A i \in DOMAIN exits : exits[i] = shutdownTimer.code
    /\ extensionsDeactivated.state # "rejected"
    /\ unexpectedErrors = {}

\* C10: once terminate has been called, hostUtils.exit is eventually called
\* with the code given; it has been called when the timer of ShutdownTimeout
\* seconds has fired, whatever hooks are unsettled, and nothing is rejected
\* or handed to onUnexpectedError on the way.
C10_ShutdownBound == (isTerminating ~> exits # <<>>) /\ []ShutdownSafe

\* the timer has fired and the exit is done while a hook is unsettled
C10_Witness ==
    /\ shutdownTimer.state = "fired"
    /\ shutdownTimer.clock = ShutdownTimeout
    /\ Len(exits) = 1
    /\ \E k \in DeactivatedSet : deactivations[k].hook = "pending"

(***************************************************************************)
(* The eager scanner.                                                      *)
(***************************************************************************)
\* a check of the scan or an activation will never settle
NeverSettles ==
    \/ \E k \in Keys : eager.scan[k] = "hung"
    \/ \E k \in Keys : operations[k].phase = "hung"

\* every owned extension that declares onStartupFinished has been requested
StartupFinishedRequested ==
    \A k \in EventMatches(myRegistry, "onStartupFinished") :
        operations[k].state # "NotActivated"

\* C11: once eager activation has begun and a check of the workspace scan or
\* an activation never settles, the onStartupFinished fan-out still runs
\* (the timer fires), and when it has run every owned extension that
\* declares onStartupFinished has received an activation request.
C11_StartupFinishedBound ==
    /\ (startPc = "eager" /\ NeverSettles) ~> eager.startupFinished
    /\ [](eager.startupFinished => StartupFinishedRequested)

\* the check of b hangs, the final latch stays closed, and the fan-out has
\* run all the same and has requested b
C11_Witness ==
    /\ eager.scan["b"] = "hung"
    /\ ~eagerExtensionsActivated
    /\ eager.startupFinished
    /\ operations["b"].state # "NotActivated"

(***************************************************************************)
(* Activation by event.                                                    *)
(***************************************************************************)
ByEventKinds == {"$activateByEvent:Immediate", "$activateByEvent:Normal"}

\* the owned extensions that declare an event
Declaring(event) ==
    {ToKey(d.identifier) : d \in {e \in myRegistry : event \in e.activationEvents}}

\* the step that forwards a call to the activator requests every owned
\* extension that declares the event, and no other one
ByEventRequestsAll ==
    \A r \in Requests :
        /\ requests[r].pc # "joined"
        /\ requests'[r].pc = "joined"
        /\ requests'[r].kind \in ByEventKinds
        => /\ requests'[r].wait = Declaring(requests'[r].arg)
           /\ \A k \in Declaring(requests'[r].arg) :
                  operations'[k].state # "NotActivated"
           /\ \A k \in Keys \ Declaring(requests'[r].arg) :
                  operations'[k] = operations[k]

\* a call returns when every extension it requested has settled, and not
\* before: it resolves
ByEventResolves ==
    \A r \in Requests :
        /\ requests[r].kind \in ByEventKinds
        /\ requests[r].pc # "done"
        /\ requests'[r].pc = "done"
        => /\ requests'[r].ret = "resolved"
           /\ \A k \in Declaring(requests[r].arg) : Settled(operations[k])

\* a call that has returned has resolved
ByEventNeverRejects ==
    \A r \in Requests :
        requests[r].kind \in ByEventKinds /\ requests[r].pc = "done"
            => requests[r].ret = "resolved"

\* a record fails only on what its own extension did: "a" on its missing
\* dependency, any other one on its own load or its own activate
FailsOnItsOwn ==
    \A k \in Keys : operations[k].state = "ActivationFailed" =>
        IF k = "a"
        THEN operations[k].error = "MissingExtensionDependency" /\ operations[k].run = 0
        ELSE operations[k].error \in {"LoadError", "ActivateError"}
             /\ operations[k].run = 1

\* C12: activateByEvent requests every owned extension that declares the
\* event; the call resolves, and never rejects, once each of them has
\* settled, whichever of them fail; and an extension fails only on its own
\* missing dependency, load or activate, never on the failure of another
\* extension that declares the event.
C12_FailureIsolation ==
    /\ [][ByEventRequestsAll /\ ByEventResolves]_vars
    /\ [](ByEventNeverRejects /\ FailsOnItsOwn)

\* a call for onCommand:x has resolved; of the three extensions that declare
\* it "a" and "c" have failed and "d" is activated
C12_Witness ==
    /\ \E r \in Requests :
           /\ requests[r].kind \in ByEventKinds
           /\ requests[r].pc = "done"
           /\ requests[r].ret = "resolved"
    /\ operations["a"].state = "ActivationFailed"
    /\ operations["c"].state = "ActivationFailed"
    /\ operations["c"].error = "ActivateError"
    /\ operations["d"].state = "Activated"

(***************************************************************************)
(* $activate.                                                              *)
(***************************************************************************)
\* the owned registry has a description whose identifier is id, whatever
\* the case of the letters
Owned(id) == \E d \in myRegistry : ToKey(d.identifier) = ToKey(id)

\* $activate is processed with ReadyToRunExtensions open; for an identifier
\* that is not owned it returns false at once and no activation record and
\* no error report changes; for an owned one the activation is requested
ActivateProcessed ==
    \A r \in Requests :
        /\ requests[r].kind = "$activate"
        /\ requests[r].pc = "waitReady"
        /\ requests'[r] # requests[r]
        => /\ readyToRunExtensions
           /\ IF ~Owned(requests[r].arg)
              THEN /\ requests'[r].pc = "done"
                   /\ requests'[r].ret = "false"
                   /\ operations' = operations
                   /\ activationErrors' = activationErrors
              ELSE /\ requests'[r].pc = "joined"
                   /\ operations'[ToKey(requests[r].arg)].state # "NotActivated"

\* $activate for an owned identifier returns true, and only when the
\* activation has settled
ActivateReturnsTrue ==
    \A r \in Requests :
        /\ requests[r].kind = "$activate"
        /\ requests[r].pc = "joined"
        /\ requests'[r].pc = "done"
        => /\ requests'[r].ret = "true"
           /\ Settled(operations[ToKey(requests[r].arg)])

\* C13: a $activate request is processed after ReadyToRunExtensions is open;
\* if its identifier is not in the owned registry then, it returns false
\* (no error), no activation is attempted and no activation record changes;
\* if it is, the request returns true once the activation has settled.
C13_UnknownIgnored ==
    /\ [][ActivateProcessed /\ ActivateReturnsTrue]_vars
    /\ [](\A r \in Requests :
              requests[r].kind = "$activate" /\ requests[r].pc = "done"
                  => requests[r].ret \in {"true", "false"})

\* $activate for the unknown "b" has returned false with every activation
\* record untouched
C13_Witness ==
    /\ \E r \in Requests :
           /\ requests[r].kind = "$activate"
           /\ requests[r].pc = "done"
           /\ requests[r].ret = "false"
    /\ readyToRunExtensions
    /\ \A k \in {"a", "b"} : operations[k] = NotActivated
    /\ activationErrors = {}

(***************************************************************************)
(* Queries for exports.                                                    *)
(***************************************************************************)
\* the step in which a query for exports is answered
Queried(r) ==
    /\ requests[r].pc = "idle"
    /\ requests'[r].kind = "getExtensionExports"

\* the claim as it is worded: a query for a record that is not Activated
\* fails with NotActivated, and exports are returned only for an Activated
\* record
C14_QueryFailsUnlessActivated ==
    [][\A r \in Requests : Queried(r) =>
          LET op == operations[ToKey(requests'[r].arg)]
          IN  /\ op.state # "Activated" => requests'[r].ret = NotActivatedError
              /\ requests'[r].ret[1] = "exports" => op.state = "Activated"]_vars

\* C14: getExtensionExports answers null while ReadyToRunExtensions is
\* closed, whatever the record; once it is open, a query for a record that
\* is NotActivated or Activating fails with NotActivated, a query for an
\* Activated record returns the record's exports, and a query for an
\* ActivationFailed record does not fail: it returns the empty exports of the
\* failed record.
C14_QueryGatedAndSettled ==
    [][\A r \in Requests : Queried(r) =>
          LET op == operations[ToKey(requests'[r].arg)]
              ret == requests'[r].ret
          IN  IF ~readyToRunExtensions THEN ret = <<"null">>
              ELSE CASE op.state = "Activated" -> ret = <<"exports", op.exports>>
                     [] op.state = "ActivationFailed" -> ret = <<"exports", NoExports>>
                     [] OTHER -> ret[1] = "error" /\ ret[2] = "NotActivated"]_vars

\* with the barrier still closed, "c", activated by an Immediate request,
\* has been asked for its exports and the answer was null
C14_Witness ==
    /\ ~readyToRunExtensions
    /\ operations["c"].state = "Activated"
    /\ \E r \in Requests :
           /\ requests[r].kind = "getExtensionExports"
           /\ requests[r].arg = "C"
           /\ requests[r].ret = <<"null">>

(***************************************************************************)
(* Failed activations.                                                     *)
(***************************************************************************)
\* an activation whose procedure was running and that has failed is
\* captured on its record and reported; a failed activate call is captured
\* as ActivateError
FailureCaptured ==
    \A k \in Keys :
        /\ operations[k].state = "Activating"
        /\ operations'[k].state = "ActivationFailed"
        => /\ operations'[k].error \in {"LoadError", "ActivateError", "TypeError"}
           /\ operations[k].phase = "activate" => operations'[k].error = "ActivateError"
           /\ [id |-> k, error |-> operations'[k].error, missing |-> NoId]
                  \in activationErrors'

\* what the entry points return when what they wait for has settled
FailureSurfaced ==
    \A r \in Requests :
        requests[r].pc = "joined" /\ requests'[r].pc = "done" =>
            CASE requests[r].kind = "$activate" -> requests'[r].ret = "true"
              [] requests[r].kind \in ByEventKinds -> requests'[r].ret = "resolved"
              [] requests[r].kind = "activateByIdWithErrors" ->
                    (LET op == operations[ToKey(requests[r].arg)]
                     IN  IF op.state = "ActivationFailed"
                         THEN requests'[r].ret = op.error
                         ELSE /\ op.state = "Activated"
                              /\ requests'[r].ret = "resolved")
              [] OTHER -> TRUE

\* C15: a failed activate call is captured on the record as its error and
\* reported; $activate and $activateByEvent for the extension still return
\* without error (true, resolved); activateByIdWithErrors rejects with
\* exactly the error on the record, and resolves only when the record is
\* Activated.
C15_FailureSurfacedOnRequest == [][FailureCaptured /\ FailureSurfaced]_vars

\* the activate call of "c" has failed; $activate for it has returned true
\* and activateByIdWithErrors for it has rejected with the captured error
C15_Witness ==
    /\ operations["c"].state = "ActivationFailed"
    /\ operations["c"].error = "ActivateError"
    /\ operations["a"] = NotActivated
    /\ operations["d"] = NotActivated
    /\ \E r \in Requests :
           /\ requests[r].kind = "$activate"
           /\ requests[r].pc = "done"
           /\ requests[r].ret = "true"
    /\ \E r \in Requests :
           /\ requests[r].kind = "activateByIdWithErrors"
           /\ requests[r].pc = "done"
           /\ requests[r].ret = "ActivateError"

(***************************************************************************)
(* Failures of initialize.                                                 *)
(***************************************************************************)
\* C16: once the setup hook has failed, which is handed to
\* onUnexpectedError, no barrier is open and _handleEagerExtensions has not
\* run, whatever is called afterwards; once the wait for the workspace has
\* failed, ReadyToStartHost, ReadyToRunExtensions and
\* EagerExtensionsActivated are closed and _handleEagerExtensions has not
\* run; in both cases initialize has ended for good.
C16_SetupFailureAborts ==
    /\ "SetupFailed" \in unexpectedErrors =>
          /\ ~almostReadyToRunExtensions
          /\ ~readyToStartExtensionHost
          /\ ~readyToRunExtensions
          /\ ~eagerExtensionsActivated
          /\ rounds.eagerRuns = 0
          /\ eager.timer = "off"
          /\ initPc = "failed"
    /\ "WorkspaceFailed" \in unexpectedErrors =>
          /\ ~readyToStartExtensionHost
          /\ ~readyToRunExtensions
          /\ ~eagerExtensionsActivated
          /\ rounds.eagerRuns = 0
          /\ eager.timer = "off"
          /\ initPc = "failed"
    /\ initPc = "failed" => unexpectedErrors \cap {"SetupFailed", "WorkspaceFailed"} # {}

\* the wait for the workspace has failed and $startExtensionHost has been
\* called since: the start waits for a barrier that stays closed
C16_Witness ==
    /\ "WorkspaceFailed" \in unexpectedErrors
    /\ almostReadyToRunExtensions
    /\ started
    /\ startPc = "waitReadyToStart"
    /\ Len(startResults) = 1

\* every failed activation has been reported
FailuresLogged ==
    \A k \in Keys : operations[k].state = "ActivationFailed" =>
        \E e \in activationErrors : e.id = k /\ e.error = operations[k].error

\* the step that settles the check of one extension, and the step that
\* fails the activation of one, leave the scans and the records of the
\* other extensions as they are
OthersContinue ==
    \A k \in Keys :
        /\ eager.scan[k] = "checking" /\ eager'.scan[k] # "checking" =>
              \A j \in Keys \ {k} :
                  eager'.scan[j] = eager.scan[j] /\ operations'[j] = operations[j]
        /\ operations[k].state = "Activating"
           /\ operations'[k].state = "ActivationFailed" =>
              /\ eager'.scan = eager.scan
              /\ \A j \in Keys \ {k} : operations'[j] = operations[j]

\* the final latch is open only when the wildcard activations and the scan
\* of every extension are over, failed or not
OpenedWhenJoined ==
    eagerExtensionsActivated =>
        /\ \A k \in eager.starWait : Settled(operations[k])
        /\ \A k \in Keys :
              /\ eager.scan[k] \in {"-", "skipped", "noMatch", "activating"}
              /\ eager.scan[k] = "activating" => Settled(operations[k])

KeysOf(ids) == {ToKey(id) : id \in ids}

\* a set of descriptions has one under the identifier, whatever the case
Holds(registry, id) == \E x \in registry : ToKey(x.identifier) = ToKey(id)

\* the global set a delta asks for
ExpectedGlobal(global, delta) ==
    {x \in global : ToKey(x.identifier) \notin KeysOf(delta.toRemove)}
        \cup delta.toAdd

\* the owned set a delta asks for
ExpectedOwned(global, owned, delta) ==
    {x \in ExpectedGlobal(global, delta) :
        ToKey(x.identifier) \in
            (KeysOf({o.identifier : o \in owned}) \ KeysOf(delta.myToRemove))
                \cup KeysOf(delta.myToAdd)}

\* a call that has computed its pair and has not installed it
Computed(s) == deltaCalls[s].pc \in {"createIndex", "getIndex"}

\* C18: the pair _applyExtensionsDelta computes from the installed pair and a
\* delta is: the global set without toRemove and with toAdd; and the
\* descriptions of that global set whose key is among the owned keys without
\* myToRemove, or in myToAdd. So an identifier in both myToRemove and
\* myToAdd is owned when the new global set holds it, and an identifier of
\* myToAdd that the new global set does not hold is not owned.
C18_ApplyDeltaResult ==
    \A s \in DeltaCalls : Computed(s) =>
        LET delta == deltaCalls[s].delta
            new == deltaCalls[s].new
        IN  /\ new.globalRegistry = ExpectedGlobal(globalRegistry, delta)
            /\ new.myExtensions = ExpectedOwned(globalRegistry, myRegistry, delta)
            /\ \A id \in delta.myToAdd :
                   Holds(new.myExtensions, id) = Holds(new.globalRegistry, id)

\* "a" is owned and in both myToRemove ("A") and myToAdd: it stays owned;
\* "D" is in myToAdd and not in the new global set: it is not owned
C18_Witness ==
    \E s \in DeltaCalls :
        /\ Computed(s)
        /\ ExtA \in myRegistry
        /\ deltaCalls[s].delta.myToRemove = {"A"}
        /\ deltaCalls[s].delta.myToAdd = {"a", "D"}
        /\ ExtA \in deltaCalls[s].new.myExtensions
        /\ ~Holds(deltaCalls[s].new.globalRegistry, "D")
        /\ ~Holds(deltaCalls[s].new.myExtensions, "D")

\* the pair a delta asks for is the pair computed by the call
AsksFor(delta, s) ==
    /\ deltaCalls[s].new.globalRegistry = ExpectedGlobal(globalRegistry, delta)
    /\ deltaCalls[s].new.myExtensions =
           ExpectedOwned(globalRegistry, myRegistry, delta)

\* C20: when toRemove of a delta names an identifier the global registry
\* does not hold, or myToRemove one the owned registry does not hold, a pair
\* is computed all the same, and it is the pair the delta without that
\* identifier asks for.
C20_UnknownRemovalNoOp ==
    \A s \in DeltaCalls : Computed(s) =>
        LET delta == deltaCalls[s].delta
        IN  /\ \A id \in delta.toRemove : ~Holds(globalRegistry, id) =>
                   AsksFor([delta EXCEPT !.toRemove = @ \ {id}], s)
            /\ \A id \in delta.myToRemove : ~Holds(myRegistry, id) =>
                   AsksFor([delta EXCEPT !.myToRemove = @ \ {id}], s)

\* "a" and "d" are owned, "c" is in no registry; a delta that removes "c"
\* and disowns "d" has been computed: "a" is still there and "d" is not owned
C20_Witness ==
    \E s \in DeltaCalls :
        /\ Computed(s)
        /\ globalRegistry = {ExtA, ExtD}
        /\ myRegistry = {ExtA, ExtD}
        /\ deltaCalls[s].delta = Delta({}, {"c"}, {}, {"d"})
        /\ deltaCalls[s].new.globalRegistry = {ExtA, ExtD}
        /\ deltaCalls[s].new.myExtensions = {ExtA}

\* the step of a call that computes its pair, and the steps in which the
\* call goes on waiting or rejects, leave both installed registries as
\* they are
ComputationIsPure ==
    \A s \in DeltaCalls :
        \/ deltaCalls[s].pc = "idle" /\ deltaCalls'[s].pc = "createIndex"
        \/ deltaCalls[s].pc = "createIndex" /\ deltaCalls'[s].pc = "getIndex"
        \/ Computed(s) /\ deltaCalls'[s].pc = "rejected"
        => globalRegistry' = globalRegistry /\ myRegistry' = myRegistry

\* an installed registry changes only in the step in which a caller
\* installs: the end of a $deltaExtensions call or a $startExtensionHost
InstalledByCaller ==
    globalRegistry' # globalRegistry \/ myRegistry' # myRegistry =>
        \/ \E s \in DeltaCalls :
              deltaCalls[s].pc = "getIndex" /\ deltaCalls'[s].pc = "done"
        \/ Len(startResults') = Len(startResults) + 1

\* as long as no caller has installed anything, the registries are the
\* constructed ones, whatever pairs have been computed
PreDeltaPairSeen ==
    startResults = <<>> /\ (\A s \in DeltaCalls : deltaCalls[s].pc # "done")
        => globalRegistry = {ExtA, ExtC} /\ myRegistry = {ExtA, ExtC}

\* C19: computing a pair with _applyExtensionsDelta leaves the installed
\* global and owned registries as they are; they change only when a caller
\* installs a result, so that between the computation and the installation
\* of a $deltaExtensions call the registries are those from before the delta.
C19_ApplyDeltaPure ==
    /\ [][ComputationIsPure /\ InstalledByCaller]_vars
    /\ []PreDeltaPairSeen

\* two calls have computed pairs that differ from the installed one and
\* wait; both registries are still the constructed ones
C19_Witness ==
    /\ startResults = <<>>
    /\ \A s \in DeltaCalls :
           /\ Computed(s)
           /\ deltaCalls[s].new.globalRegistry # globalRegistry
    /\ globalRegistry = {ExtA, ExtC}
    /\ myRegistry = {ExtA, ExtC}


(***************************************************************************)
(* Requests queued behind ReadyToRunExtensions.                            *)
(***************************************************************************)
QueuedKinds == {"$activate", "$activateByEvent:Normal"}

\* the request of slot r waits for ReadyToRunExtensions
Queued(r) ==
    /\ requests[r].kind \in QueuedKinds
    /\ requests[r].pc = "waitReady"

\* a queued request is left as it is while the barrier is closed
QueuedHeld ==
    \A r \in 1 .. MaxQueued :
        Queued(r) /\ ~readyToRunExtensions => requests'[r] = requests[r]

\* a queued request leaves the queue by being forwarded: the activator has a
\* record of everything it asked for, or the owned registry does not know
\* the identifier $activate names
QueuedForwarded ==
    \A r \in 1 .. MaxQueued :
        Queued(r) /\ requests'[r] # requests[r] =>
            \/ /\ requests'[r].pc = "joined"
               /\ requests'[r].kind = requests[r].kind
               /\ requests'[r].wait =
                      IF requests[r].kind = "$activate"
                      THEN {ToKey(requests[r].arg)}
                      ELSE Declaring(requests[r].arg)
               /\ \A k \in requests'[r].wait : operations'[k].state # "NotActivated"
            \/ /\ requests[r].kind = "$activate"
               /\ ~Owned(requests[r].arg)
               /\ requests'[r].pc = "done"

StarSettled ==
    \A k \in eager.starWait :
        operations[k].state \in {"Activated", "ActivationFailed"}

\* the scan _handleEagerExtensions started is over for every extension
InitialScanSettled ==
    \A k \in Keys :
        \/ eager.scan[k] \in {"-", "skipped", "noMatch"}
        \/ /\ eager.scan[k] = "activating"
           /\ operations[k].state \in {"Activated", "ActivationFailed"}

\* the step that opens EagerExtensionsActivated is taken after
\* _handleEagerExtensions has run, with both settled
OpensAfterScanner ==
    ~eagerExtensionsActivated /\ eagerExtensionsActivated' =>
        /\ rounds.eagerRuns > 0
        /\ StarSettled
        /\ InitialScanSettled

\* the step of the timer and the step of the fan-out leave the latch alone
TimerLeavesLatch ==
    eager'.timer # eager.timer \/ eager'.startupFinished # eager.startupFinished =>
        eagerExtensionsActivated' = eagerExtensionsActivated

\* C22: EagerExtensionsActivated opens only in a step taken when the
\* wildcard activations and the initial workspace-contains scan have both
\* settled; the timer of onStartupFinished and the fan-out do not touch the
\* latch, which is closed whenever one of the two is unsettled; and when
\* both have settled the latch opens whether or not the onStartupFinished
\* activations settle.
C22_FinalLatchWaitsForScanner ==
    /\ [][OpensAfterScanner /\ TimerLeavesLatch]_vars
    /\ [](eagerExtensionsActivated => StarSettled /\ InitialScanSettled)
    /\ (startPc = "eager" /\ StarSettled /\ InitialScanSettled)
           ~> eagerExtensionsActivated

\* the final latch is open while the activation of "b", requested by the
\* onStartupFinished fan-out only, hangs
C22_Witness ==
    /\ eagerExtensionsActivated
    /\ eager.startupFinished
    /\ eager.scan["b"] = "noMatch"
    /\ operations["b"].phase = "hung"

(***************************************************************************)
(* The onStartupFinished fan-out.                                          *)
(***************************************************************************)
\* the step of the fan-out is the first one, and it is taken when the
\* wildcard activations and the scan have settled or the timer has fired
FanOutDeferred ==
    eager'.fanOuts # eager.fanOuts =>
        /\ eager.fanOuts = 0
        /\ eager'.fanOuts = 1
        /\ rounds.eagerRuns > 0
        /\ \/ StarSettled /\ InitialScanSettled
           \/ eager.timer = "fired"

\* the activation of k was requested by the fan-out and by nothing else
ByFanOutOnly(k) ==
    /\ k \in Declaring("onStartupFinished")
    /\ k \notin eager.starWait
    /\ eager.scan[k] # "activating"

\* the step in which an activation requested by the fan-out fails reports the
\* failure and leaves the records of the other extensions, the latch and
\* what the latch waits for as they are
FanOutFailureContained ==
    \A k \in Keys :
        /\ ByFanOutOnly(k)
        /\ operations[k].state = "Activating"
        /\ operations'[k].state = "ActivationFailed"
        => /\ \E e \in activationErrors' :
                  e.id = k /\ e.error = operations'[k].error
           /\ \A j \in Keys \ {k} : operations'[j] = operations[j]
           /\ eagerExtensionsActivated' = eagerExtensionsActivated
           /\ (StarSettled /\ InitialScanSettled)' = (StarSettled /\ InitialScanSettled)
           /\ startPc' = startPc

\* C23: the onStartupFinished fan-out runs at most once after a start, in a
\* step taken when the wildcard activations and the workspace-contains scan
\* have both settled or the timer has fired, never earlier; when one of the
\* activations it requested fails, the failure is reported and the records
\* of the other extensions, the final latch and what the latch waits for
\* are left as they are.
C23_StartupFinishedOnce ==
    /\ [][FanOutDeferred /\ FanOutFailureContained]_vars
    /\ [](eager.fanOuts <= 1)
    /\ [](eager.fanOuts = 0 =>
             \A k \in Keys : ByFanOutOnly(k) => operations[k].state = "NotActivated")

\* the fan-out has run once; the activation of "b", which it alone
\* requested, has failed and is reported; "e" is activated and the final
\* latch is open
C23_Witness ==
    /\ eager.fanOuts = 1
    /\ eager.scan["b"] = "noMatch"
    /\ operations["b"].state = "ActivationFailed"
    /\ \E e \in activationErrors : e.id = "b"
    /\ operations["e"].state = "Activated"
    /\ eagerExtensionsActivated

(***************************************************************************)
(* The race of the exit.                                                   *)
(***************************************************************************)
\* hostUtils.exit has been called only with the timer fired or
\* _deactivateAll settled, and once at most
ExitAfterRace ==
    /\ Len(exits) <= 1
    /\ exits # <<>> =>
          \/ shutdownTimer.state = "fired"
          \/ extensionsDeactivated.state \in {"resolved", "rejected"}

\* the step in which _deactivateAll settles before the exit calls
\* hostUtils.exit, whatever the timer shows
ExitOnDeactivated ==
    /\ extensionsDeactivated.state = "pending"
    /\ extensionsDeactivated'.state # "pending"
    /\ exits = <<>>
    => /\ exits' = <<shutdownTimer.code>>
       /\ shutdownTimer' = shutdownTimer

\* the step in which the timer fires before the exit calls hostUtils.exit
\* and leaves every hook as it is, the unsettled ones too
ExitOnTimer ==
    /\ shutdownTimer.state = "armed"
    /\ shutdownTimer'.state = "fired"
    => /\ exits = <<>> => exits' = <<shutdownTimer.code>>
       /\ deactivations' = deactivations
       /\ extensionsDeactivated' = extensionsDeactivated

\* C24: after terminate, hostUtils.exit is not called while the timer of
\* ShutdownTimeout seconds has not fired and _deactivateAll has not settled;
\* when _deactivateAll settles first the exit is called in that step, with
\* the timer still running; when the timer fires first the exit is called
\* in that step and the hooks that are unsettled stay unsettled.
C24_ExitRace ==
    []ExitAfterRace /\ [][ExitOnDeactivated /\ ExitOnTimer]_vars

\* three hooks were called and have settled, _deactivateAll has resolved and
\* the exit is done while the timer is running
C24_Witness ==
    /\ Len(exits) = 1
    /\ shutdownTimer.state = "armed"
    /\ shutdownTimer.clock < ShutdownTimeout
    /\ extensionsDeactivated.state = "resolved"
    /\ Cardinality(extensionsDeactivated.activatedExtensions) = 3
    /\ \A k \in extensionsDeactivated.activatedExtensions :
           deactivations[k].hook \in {"resolved", "rejected"}

(***************************************************************************)
(* Changes of the workspace.                                               *)
(***************************************************************************)
\* the scan a step has started for a change of the workspace
NewRescan == eager'.rescans[Len(eager'.rescans)]

\* a change of the workspace is scanned after _handleEagerExtensions has run;
\* the scan is of the folders the change adds, none of which the workspace
\* had before; without such a folder nothing is checked, and what is checked
\* is owned and not activated
RescanOfAddedOnly ==
    Len(eager'.rescans) > Len(eager.rescans) =>
        /\ rounds.eagerRuns > 0
        /\ eager'.folders # eager.folders
        /\ NewRescan.folders = eager'.folders \ eager.folders
        /\ NewRescan.folders \cap eager.folders = {}
        /\ \A k \in Keys :
              /\ NewRescan.scan[k] \in {"-", "skipped", "checking"}
              /\ NewRescan.scan[k] = "checking" =>
                    /\ NewRescan.folders # {}
                    /\ Owned(k)
                    /\ operations[k].state # "Activated"
              /\ NewRescan.folders # {} /\ Owned(k)
                 /\ operations[k].state = "Activated" =>
                    NewRescan.scan[k] = "skipped"

\* no scan is of no folder, and no later step makes a scan check an
\* extension it has skipped or left out
RescansKept ==
    \A i \in DOMAIN eager.rescans :
        /\ eager'.rescans[i].folders = eager.rescans[i].folders
        /\ \A k \in Keys :
              eager.rescans[i].scan[k] \in {"-", "skipped"} =>
                  eager'.rescans[i].scan[k] = eager.rescans[i].scan[k]

\* C25: when the folders of the workspace change after
\* _handleEagerExtensions has run, existence checks are started for the
\* folders the change adds and for no folder the workspace had before; a
\* change that adds no folder starts no check, and an owned extension that
\* is activated is skipped without a check.
C25_RescanAddedFoldersOnly ==
    [][RescanOfAddedOnly /\ RescansKept]_vars

\* "folder" was scanned at the start and "b" is activated; then "other" was
\* added: "b" was skipped and "c" checked against "other" alone; then
\* "folder" was removed and nothing was checked
C25_Witness ==
    /\ eager.scan["b"] = "activating"
    /\ operations["b"].state = "Activated"
    /\ Len(eager.rescans) = 2
    /\ eager.rescans[1].folders = {"other"}
    /\ eager.rescans[1].scan["b"] = "skipped"
    /\ eager.rescans[1].scan["c"] = "checking"
    /\ eager.rescans[2].folders = {}
    /\ \A k \in Keys : eager.rescans[2].scan[k] = "-"
    /\ eager.folders = {"other"}

(***************************************************************************)
(* Host extensions.                                                        *)
(***************************************************************************)
\* the record of a host extension is never in a step of the local
\* procedure, has no description looked up, and has no exports
HostNeverLocal ==
    \A k \in initData.hostExtensions :
        /\ operations[k].phase \in {"-", "host"}
        /\ operations[k].desc = NoDesc
        /\ operations[k].exports = NoExports
        /\ operations[k].run <= 1
        /\ Settled(operations[k]) => operations[k].run = 1

\* the record of a host extension settles in the step in which the call to
\* the main thread settles: activated when it succeeds, failed when it fails
HostSettlesWithCall ==
    \A k \in initData.hostExtensions :
        operations'[k].state # operations[k].state =>
            \/ /\ operations[k].state = "NotActivated"
               /\ operations'[k].state = "Activating"
               /\ operations'[k].phase = "host"
            \/ /\ operations[k].phase = "host"
               /\ \/ operations'[k] = [operations[k] EXCEPT
                                          !.state = "Activated", !.phase = "-"]
                  \/ /\ operations'[k].state = "ActivationFailed"
                     /\ \E e \in activationErrors' : e.id = k

\* C26: the activation of a host extension runs no step of the local
\* procedure (no description and entry point looked up, no module and
\* context loaded, activate not called); the main thread is called to
\* activate it, and the record becomes activated, with no exports, only when
\* that call succeeds; when the call fails the activation has failed.
C26_HostDelegated ==
    []HostNeverLocal /\ [][HostSettlesWithCall]_vars

\* the host extension "b" is activated with no exports, and "a", which
\* depends on it, has been activated from its module after it
C26_Witness ==
    /\ operations["b"].state = "Activated"
    /\ operations["b"].exports = NoExports
    /\ operations["b"].desc = NoDesc
    /\ operations["a"].state = "Activated"
    /\ operations["a"].exports # NoExports

(***************************************************************************)
(* The order of the steps of an activation.                                *)
(***************************************************************************)
\* _callActivate was run in this step for k: activate was called and has
\* thrown, or what it returned is awaited, or the module has no activate and
\* is the exports
ActivateInvoked(k) ==
    /\ operations[k].phase \notin {"activate", "hung"}
    /\ operations[k].state = "Activating"
    /\ operations[k].desc # <<>> /\ operations[k].desc.main
    /\ \/ operations'[k].phase = "activate"
       \/ operations'[k].state = "ActivationFailed"
          /\ operations'[k].error = "ActivateError"
       \/ operations'[k].state = "Activated"

\* activate is called with the module loaded and the context made of the
\* mementos and storage paths that are ready
ActivateAfterLoads ==
    \A k \in Keys :
        ActivateInvoked(k) =>
            /\ operations[k].phase = "load"
            /\ operations[k].loaded =
                   {"module", "globalState", "workspaceState", "storagePath"}

\* when the module or a part of the context fails to load the activation
\* has failed, and a record that has settled stays as it is
LoadFailureFails ==
    \A k \in Keys :
        /\ operations[k].phase = "load" /\ operations'[k].phase # "load"
           /\ ~ActivateInvoked(k)
           => /\ operations'[k].state = "ActivationFailed"
              /\ operations'[k].error = "LoadError"
              /\ \E e \in activationErrors' : e.id = k /\ e.error = "LoadError"
        /\ operations[k].state \in {"Activated", "ActivationFailed"} =>
              operations'[k] = operations[k]

\* the record of an extension without entry point is activated, empty, and
\* nothing was loaded or called for it
EmptyWithoutEntryPoint ==
    \A k \in Keys :
        operations[k].desc # <<>> /\ ~operations[k].desc.main =>
            /\ operations[k].phase \in {"-", "deps", "willActivate"}
            /\ operations[k].loaded = {}
            /\ operations[k].state # "ActivationFailed"
            /\ operations[k].exports = <<>>

\* C27: activate of the module of a local extension is called only in a step
\* taken when the module is loaded and the context is made, for which the
\* two mementos and the storage paths are ready; when one of them fails to
\* load, activate is not called and the activation has failed; an extension
\* without entry point is activated as an empty extension, with nothing
\* loaded and nothing called.
C27_ActivationStepOrder ==
    /\ [][ActivateAfterLoads /\ LoadFailureFails]_vars
    /\ [](\A k \in Keys : operations[k].phase = "activate" =>
             operations[k].loaded =
                 {"module", "globalState", "workspaceState", "storagePath"})
    /\ []EmptyWithoutEntryPoint

\* "c" has failed on the storage paths after its module was loaded, and the
\* empty extension "d" is activated
C27_Witness ==
    /\ operations["c"].state = "ActivationFailed"
    /\ operations["c"].error = "LoadError"
    /\ operations["c"].loaded = {"module", "globalState", "workspaceState"}
    /\ operations["d"].state = "Activated"
    /\ operations["d"].exports = <<>>

(***************************************************************************)
(* What _deactivateAll deactivates.                                        *)
(***************************************************************************)
\* owned and activated now
OwnedAndActivated ==
    {k \in Keys : /\ \E d \in myRegistry : ToKey(d.identifier) = k
                  /\ readyToRunExtensions
                  /\ operations[k].state = "Activated"}

\* the step in which _deactivateAll starts calls the hook, if there is one,
\* and releases the subscriptions of every extension that is owned and
\* activated then, and of no other one
SnapshotTaken ==
    ~isTerminating /\ isTerminating' =>
        /\ extensionsDeactivated'.activatedExtensions = OwnedAndActivated
        /\ \A k \in Keys :
              IF k \in OwnedAndActivated
              THEN /\ deactivations'[k].disposeCalls = 1
                   /\ deactivations'[k].hookCalls =
                          IF deactivations'[k].hook = "noHook" THEN 0 ELSE 1
                   /\ deactivations'[k].hook # "-"
              ELSE deactivations'[k] = deactivations[k]

\* no later step calls a hook or releases subscriptions, and the set is kept
SnapshotKept ==
    isTerminating =>
        /\ extensionsDeactivated'.activatedExtensions =
               extensionsDeactivated.activatedExtensions
        /\ \A k \in Keys :
              /\ deactivations'[k].hookCalls = deactivations[k].hookCalls
              /\ deactivations'[k].disposeCalls = deactivations[k].disposeCalls

\* C28: _deactivateAll calls the hooks and releases the subscriptions of
\* the extensions that are in the owned registry and reported activated in
\* the step in which it starts, and of no other: an extension whose
\* activation settles later, or that is activated and was removed from the
\* owned registry by a delta before, has no hook called and nothing released.
C28_DeactivationSnapshot ==
    /\ [][SnapshotTaken /\ SnapshotKept]_vars
    /\ [](\A k \in Keys :
             k \notin extensionsDeactivated.activatedExtensions =>
                 deactivations[k].hookCalls = 0 /\ deactivations[k].disposeCalls = 0)

\* "c" alone was deactivated: "d" is activated and was disowned by a delta
\* before, "e" is owned and its activation has settled since
C28_Witness ==
    /\ extensionsDeactivated.state # "idle"
    /\ extensionsDeactivated.activatedExtensions = {"c"}
    /\ deactivations["c"].disposeCalls = 1
    /\ operations["d"].state = "Activated"
    /\ ~\E x \in myRegistry : ToKey(x.identifier) = "d"
    /\ operations["e"].state = "Activated"
    /\ \E x \in myRegistry : ToKey(x.identifier) = "e"
    /\ deactivations["d"].disposeCalls = 0 /\ deactivations["d"].hookCalls = 0
    /\ deactivations["e"].disposeCalls = 0 /\ deactivations["e"].hookCalls = 0

(***************************************************************************)
(* Overlapping $deltaExtensions calls.                                     *)
(***************************************************************************)
\* the pair the constructor of RegistryInit installs
ConstructedPair ==
    [globalRegistry |-> {ExtA, ExtC},
     myExtensions |-> FilterExtensions({ExtA, ExtC},
                          ExtensionIdentifiersArrayToSet({"a", "C"}))]

\* one delta applied to the constructed pair, then another to the result
OneAfterTheOther(first, second) ==
    LET between == ApplyExtensionsDelta(ConstructedPair.globalRegistry,
                                        ConstructedPair.myExtensions, first)
    IN  ApplyExtensionsDelta(between.globalRegistry, between.myExtensions, second)

\* two calls, and no other call that changes the registries, have finished
TwoDeltasFinished ==
    /\ startResults = <<>>
    /\ Len(deltaCalls) >= 2
    /\ \A s \in DOMAIN deltaCalls :
           deltaCalls[s].pc = IF s <= 2 THEN "done" ELSE "idle"

InstalledPair == [globalRegistry |-> globalRegistry, myExtensions |-> myRegistry]

\* C29: when two $deltaExtensions calls have finished, overlapping or not,
\* the registries are what the two deltas give when applied one after the
\* other, in one order or the other.
C29_OverlappingDeltasSerializable ==
    TwoDeltasFinished =>
        InstalledPair \in
            {OneAfterTheOther(deltaCalls[1].delta, deltaCalls[2].delta),
             OneAfterTheOther(deltaCalls[2].delta, deltaCalls[1].delta)}

\* the first call added "E" and the second removed "A"; both have finished
\* and "E" is in no registry
C29_Witness ==
    /\ TwoDeltasFinished
    /\ deltaCalls[1].delta = Delta({ExtE}, {}, {"e"}, {})
    /\ deltaCalls[2].delta = Delta({}, {"A"}, {}, {})
    /\ ~\E d \in globalRegistry : ToKey(d.identifier) = "e"
    /\ ~\E d \in myRegistry : ToKey(d.identifier) = "e"

(***************************************************************************)
(* The order of hook and disposal.                                         *)
(***************************************************************************)
\* the step that calls the hook of an extension releases its subscriptions,
\* whether the hook has thrown or what it returned is unsettled
DisposedWithHook ==
    \A k \in Keys :
        deactivations'[k].hookCalls > deactivations[k].hookCalls =>
            /\ deactivations'[k].hook \in {"pending", "threw"}
            /\ deactivations'[k].disposeCalls = deactivations[k].disposeCalls + 1

\* the step in which what a hook returned settles releases nothing
SettlingReleasesNothing ==
    \A k \in Keys :
        deactivations[k].hook = "pending" /\ deactivations'[k].hook # "pending" =>
            deactivations'[k].disposeCalls = deactivations[k].disposeCalls

\* C30: when an activated extension is deactivated its subscriptions are
\* released in the step in which its hook is called: they are released
\* while what the hook returned is unsettled, whether or not it ever
\* settles, and when the hook has thrown.
C30_DisposalWithHook ==
    /\ [][DisposedWithHook /\ SettlingReleasesNothing]_vars
    /\ [](\A k \in Keys :
             deactivations[k].hook \in {"pending", "threw"} =>
                 deactivations[k].disposeCalls = 1)

\* the host has exited on the timer: the hook of one extension is unsettled,
\* the hook of another has thrown, and the subscriptions of both are released
C30_Witness ==
    /\ exits # <<>>
    /\ shutdownTimer.state = "fired"
    /\ \E j, k \in Keys :
           /\ deactivations[j].hook = "pending"
           /\ deactivations[j].disposeCalls = 1
           /\ deactivations[k].hook = "threw"
           /\ deactivations[k].disposeCalls = 1

(***************************************************************************)
(* A start that is refused.                                                *)
(***************************************************************************)
\* a call of $startExtensionHost was refused in this step
StartRefused ==
    /\ Len(startResults') = Len(startResults) + 1
    /\ startResults'[Len(startResults')] = "AlreadyStarted"

\* the step that refuses a start finds the host started, leaves the start as
\* it is, and installs in both registries what the delta of the call asks for
RefusedStartInstalls ==
    StartRefused =>
        /\ started /\ started'
        /\ startPc' = startPc
        /\ \E d \in RestartDeltas :
               /\ globalRegistry' = ExpectedGlobal(globalRegistry, d)
               /\ myRegistry' = ExpectedOwned(globalRegistry, myRegistry, d)

\* C31: a call of $startExtensionHost that fails because the host was
\* started before has replaced the global and the owned registry by what its
\* delta gives: the failure does not leave the registries as they were.
C31_RefusedStartInstallsDelta ==
    [][RefusedStartInstalls]_vars

\* initialize has started the host, the one call of $startExtensionHost was
\* refused, and "E", which its delta adds, is in both registries
C31_Witness ==
    /\ startResults = <<"AlreadyStarted">>
    /\ started
    /\ \E d \in globalRegistry : d.identifier = "E"
    /\ \E d \in myRegistry : d.identifier = "E"

(***************************************************************************)
(* The gate of isActivated.                                                *)
(***************************************************************************)
\* request r returns in this step
Returns(r) == requests[r].pc = "idle" /\ requests'[r].pc = "done"

\* a query made while ReadyToRunExtensions is closed: isActive is false and
\* the exports are null, whatever identifier it names
ClosedQueryAnswers ==
    \A r \in Requests :
        Returns(r) /\ ~readyToRunExtensions =>
            CASE requests'[r].kind = "isActive" ->
                     requests'[r].ret = <<"isActive", FALSE>>
              [] requests'[r].kind = "getExtensionExports" ->
                     requests'[r].ret = <<"null">>
              [] OTHER -> TRUE

\* terminate gets past its guard in this step
TerminateStarts == ~isTerminating /\ isTerminating'

\* terminate while ReadyToRunExtensions is closed: no extension is found
\* activated, no hook is called, nothing is released
ClosedTerminateReleasesNothing ==
    TerminateStarts /\ ~readyToRunExtensions =>
        /\ extensionsDeactivated'.activatedExtensions = {}
        /\ \A k \in Keys :
               /\ deactivations'[k].hookCalls = 0
               /\ deactivations'[k].disposeCalls = 0

\* hooks are called and subscriptions released by the step in which
\* terminate starts, and by no other step
ReleasedByTerminateOnly ==
    ~TerminateStarts =>
        \A k \in Keys :
            /\ deactivations'[k].hookCalls = deactivations[k].hookCalls
            /\ deactivations'[k].disposeCalls = deactivations[k].disposeCalls

\* C32: while ReadyToRunExtensions is closed isActivated answers false for
\* every identifier, whatever the ledger holds, and getExtensionExports
\* answers null; so a terminate issued before the barrier opens calls no
\* deactivate hook and releases no subscriptions, then or later.
C32_IsActivatedGated ==
    [][ClosedQueryAnswers /\ ClosedTerminateReleasesNothing
          /\ ReleasedByTerminateOnly]_vars

\* terminate ran with the barrier closed and "c" activated in the ledger;
\* isActive of "C" was answered false and its exports null, the barrier has
\* opened since, and no hook was called and nothing released
C32_Witness ==
    /\ isTerminating
    /\ extensionsDeactivated.activatedExtensions = {}
    /\ readyToRunExtensions
    /\ operations["c"].state = "Activated"
    /\ \E r \in Requests :
           /\ requests[r].kind = "isActive"
           /\ requests[r].arg = "C"
           /\ requests[r].ret = <<"isActive", FALSE>>
    /\ \E r \in Requests :
           /\ requests[r].kind = "getExtensionExports"
           /\ requests[r].arg = "C"
           /\ requests[r].ret = <<"null">>
    /\ \A k \in Keys : deactivations[k].hookCalls = 0
                       /\ deactivations[k].disposeCalls = 0

(***************************************************************************)
(* Repeated calls of terminate.                                            *)
(***************************************************************************)
\* terminate is called in this step
TerminateCalled == terminateCalls' = terminateCalls + 1

\* a call of terminate after the first changes nothing but the count of the
\* calls
LaterTerminateInert ==
    TerminateCalled /\ isTerminating =>
        UNCHANGED <<isTerminating, deactivations, extensionsDeactivated,
                    shutdownTimer, exits, initData, deltaCalls, barrierVars,
                    registryVars, startVars, ledgerVars, requestVars, eager>>

\* however often terminate is called, a hook is called at most once, the
\* subscriptions of an extension are released at most once, and the process
\* exits at most once
AtMostOnceEach ==
    /\ \A k \in Keys :
           /\ deactivations[k].hookCalls <= 1
           /\ deactivations[k].disposeCalls <= 1
    /\ Len(exits) <= 1

\* the code the first call was given stays the code of the shutdown, and
\* is the code the process exits with
FirstCodeKept ==
    /\ isTerminating => shutdownTimer'.code = shutdownTimer.code
    /\ exits' # exits => isTerminating /\ exits' = <<shutdownTimer.code>>

\* C33: terminate is idempotent: of any sequence of calls only the first
\* has an effect; the deactivate hook of an activated extension is called
\* at most once, its subscriptions are released at most once, and the
\* process exits at most once, with the code of the first call.
C33_TerminateIdempotent ==
    /\ []AtMostOnceEach
    /\ [][LaterTerminateInert /\ FirstCodeKept]_vars

\* terminate was called twice with "c" activated: its hook was called once,
\* its subscriptions released once, and the process has exited once
C33_Witness ==
    /\ terminateCalls = 2
    /\ readyToRunExtensions
    /\ deactivations["c"].hookCalls = 1
    /\ deactivations["c"].disposeCalls = 1
    /\ Len(exits) = 1

====
